---- MODULE Spec2Model ----
(***************************************************************************)
(* A model of github.com/wranders/go-argon2: the settings parser           *)
(* (NewHasherFromString), the memory-expression evaluator (parseMemory,    *)
(* evalMemory), hash creation (Hasher.Create) and verification (Matches).  *)
(*                                                                         *)
(* Text is modelled as a sequence of one-character strings, so that        *)
(* splitting, scanning, formatting and base64 coding are computed and not  *)
(* assumed.  A uint32 is the pair <<hi, lo>> of its 16-bit halves, so that *)
(* the whole 32-bit range and its wraparound are represented exactly.      *)
(***************************************************************************)
EXTENDS Integers, Sequences, FiniteSets, TLC

\* F applied to the value of v: v is evaluated once and F sees its value
Let(v, F(_)) == CHOOSE r \in {F(x) : x \in {v}} : TRUE

(***************************************************************************)
(* Text helpers                                                            *)
(***************************************************************************)
DigitChars == <<"0", "1", "2", "3", "4", "5", "6", "7", "8", "9">>

IsDigit(c) == \E i \in 1..10 : DigitChars[i] = c

DigitVal(c) == (CHOOSE i \in 1..10 : DigitChars[i] = c) - 1

\* the Go slice s[n:]
Drop(s, n) == SubSeq(s, n + 1, Len(s))

\* the Go slice s[:n]
Take(s, n) == SubSeq(s, 1, n)

HasPrefix(s, p) == Len(s) >= Len(p) /\ Take(s, Len(p)) = p

\* how many leading characters of s are in the set cs
PrefixLen(s, cs) ==
    CHOOSE k \in 0..Len(s) :
        /\ \A i \in 1..k : s[i] \in cs
        /\ k = Len(s) \/ s[k + 1] \notin cs

\* strings.Split(s, sep) for a one-character separator: the pieces between
\* the occurrences of sep, one more piece than occurrences
Split(s, sep) ==
    LET at    == {i \in 1..Len(s) : s[i] = sep}
        n     == Cardinality(at)
        \* the position of the k-th separator; 0 and Len(s) + 1 bound the text
        pos(k) == IF k = 0 THEN 0
                  ELSE IF k = n + 1 THEN Len(s) + 1
                  ELSE CHOOSE p \in at : Cardinality({q \in at : q < p}) = k - 1
    IN  [k \in 1..(n + 1) |-> SubSeq(s, pos(k - 1) + 1, pos(k) - 1)]

\* strings.Join, used to build input texts
RECURSIVE Join(_, _)
Join(ss0, sep) ==
    Let(ss0, LAMBDA ss :
        IF ss = <<>> THEN <<>>
        ELSE IF Len(ss) = 1 THEN ss[1]
        ELSE ss[1] \o <<sep>> \o Join(Tail(ss), sep))

(***************************************************************************)
(* uint32 arithmetic (Go's wrapping +, -, *, and truncating /)             *)
(***************************************************************************)
W16 == 65536

W8 == 256

U32(n) == <<n \div W16, n % W16>>

U32Zero == <<0, 0>>

U32Max == <<W16 - 1, W16 - 1>>

U32Lt(a, b) == a[1] < b[1] \/ (a[1] = b[1] /\ a[2] < b[2])

U32Add(a, b) ==
    LET lo == a[2] + b[2]
        hi == a[1] + b[1] + (lo \div W16)
    IN  <<hi % W16, lo % W16>>

U32Sub(a, b) ==
    LET lo == a[2] - b[2]
        borrow == IF lo < 0 THEN 1 ELSE 0
        hi == a[1] - b[1] - borrow
    IN  <<(hi + W16) % W16, (lo + W16) % W16>>

\* the full 32-bit product of two 16-bit halves
Mul16(x, y) ==
    LET xh == x \div W8
        xl == x % W8
        q  == xh * y
    IN  U32Add(<<q \div W8, (q % W8) * W8>>, U32(xl * y))

U32Mul(a, b) ==
    LET cross == (Mul16(a[1], b[2])[2] + Mul16(a[2], b[1])[2]) % W16
    IN  U32Add(Mul16(a[2], b[2]), <<cross, 0>>)

\* a / b for 0 < b < 2^16: short division over the four bytes of a
DivShort(a, b) ==
    LET q3 == (a[1] \div W8) \div b
        r3 == (a[1] \div W8) % b
        t2 == r3 * W8 + (a[1] % W8)
        t1 == (t2 % b) * W8 + (a[2] \div W8)
        t0 == (t1 % b) * W8 + (a[2] % W8)
    IN  <<q3 * W8 + (t2 \div b), (t1 \div b) * W8 + (t0 \div b)>>

\* q * b for q < 2^16, and whether it fits 32 bits
MulSmall(q, b) ==
    LET p1 == Mul16(q, b[1])
        p0 == Mul16(q, b[2])
    IN  [fits |-> p1[1] = 0 /\ p1[2] + p0[1] < W16,
         val  |-> <<(p1[2] + p0[1]) % W16, p0[2]>>]

\* a / b for b >= 2^16: the quotient is below 2^16.  With both operands
\* shifted right until b is below 2^16, the quotient lies between the
\* shifted a divided by the shifted b plus one and divided by the shifted
\* b; it is the q of that range with q * b <= a < q * b + b.
DivLong(a, b) ==
    LET s  == CHOOSE k \in 1..16 : b[1] \div 2 ^ (k - 1) > 0 /\ b[1] \div 2 ^ k = 0
        sh(x) == (x[1] \div 2 ^ s) * W16 + (x[1] % 2 ^ s) * 2 ^ (16 - s) + (x[2] \div 2 ^ s)
        lo == sh(a) \div (sh(b) + 1)
        hi == sh(a) \div sh(b)
        q  == CHOOSE c \in lo..hi :
                  LET m == MulSmall(c, b)
                  IN  m.fits /\ ~U32Lt(a, m.val) /\ U32Lt(U32Sub(a, m.val), b)
    IN  <<0, q>>

\* Go's x / y on uint32, for y # 0
U32Div(a, b) == IF b[1] = 0 THEN DivShort(a, b[2]) ELSE DivLong(a, b)

\* a uint32 small enough to be a length
U32ToNat(a) == a[1] * W16 + a[2]

(***************************************************************************)
(* strconv and fmt's %d                                                    *)
(***************************************************************************)
\* a numeral without its leading zeros (the numeral of zero keeps one)
StripZeros(ds) ==
    LET k == PrefixLen(ds, {"0"})
    IN  IF k = Len(ds) THEN SubSeq(ds, Len(ds), Len(ds)) ELSE Drop(ds, k)

\* a <= b for two numerals of the same length
DigitsLe(a, b) ==
    \/ a = b
    \/ \E i \in 1..Len(a) :
          /\ DigitVal(a[i]) < DigitVal(b[i])
          /\ \A j \in 1..(i - 1) : a[j] = b[j]

\* does the numeral ds denote a value <= the numeral max
DecimalLe(ds, max) ==
    Let(StripZeros(ds), LAMBDA d :
        Len(d) < Len(max) \/ (Len(d) = Len(max) /\ DigitsLe(d, max)))

MaxUint32Digits == <<"4", "2", "9", "4", "9", "6", "7", "2", "9", "5">>

MaxUint8Digits == <<"2", "5", "5">>

MaxUint64Digits ==
    <<"1", "8", "4", "4", "6", "7", "4", "4", "0", "7",
      "3", "7", "0", "9", "5", "5", "1", "6", "1", "5">>

MaxInt64Digits ==
    <<"9", "2", "2", "3", "3", "7", "2", "0", "3", "6",
      "8", "5", "4", "7", "7", "5", "8", "0", "7">>

MinInt64Digits ==
    <<"9", "2", "2", "3", "3", "7", "2", "0", "3", "6",
      "8", "5", "4", "7", "7", "5", "8", "0", "8">>

\* the value of a numeral that fits 32 bits, from its last ten digits:
\* the five high ones times 100000 plus the five low ones
DigitsToU32(ds) ==
    LET d(k) == IF k < Len(ds) THEN DigitVal(ds[Len(ds) - k]) ELSE 0
        low  == d(0) + d(1) * 10 + d(2) * 100 + d(3) * 1000 + d(4) * 10000
        high == d(5) + d(6) * 10 + d(7) * 100 + d(8) * 1000 + d(9) * 10000
    IN  U32Add(U32Mul(U32(high), U32(100000)), U32(low))

\* strconv.ParseUint(s, 10, 32)
ParseUint32(s) ==
    IF s = <<>> \/ \E i \in 1..Len(s) : ~IsDigit(s[i])
    THEN [err |-> "NumError", val |-> U32Zero]
    ELSE IF ~DecimalLe(s, MaxUint32Digits)
    THEN [err |-> "NumError", val |-> U32Zero]
    ELSE [err |-> "nil", val |-> DigitsToU32(s)]

\* the decimal numeral of a uint32, as fmt's %d prints it
FormatU32(a) ==
    LET n == IF ~U32Lt(a, U32(10 ^ 9)) THEN 10
             ELSE CHOOSE k \in 1..9 :
                      /\ U32Lt(a, U32(10 ^ k))
                      /\ k = 1 \/ ~U32Lt(a, U32(10 ^ (k - 1)))
        digit(k) == LET q == U32Div(a, U32(10 ^ k))
                    IN  ((q[1] % 10) * W16 + q[2]) % 10
    IN  [i \in 1..n |-> DigitChars[digit(n - i) + 1]]

(***************************************************************************)
(* encoding/base64, RawStdEncoding: the standard alphabet, no padding.     *)
(* A byte is a number in 0..255.                                           *)
(***************************************************************************)
B64Alphabet ==
    <<"A", "B", "C", "D", "E", "F", "G", "H", "I", "J", "K", "L", "M",
      "N", "O", "P", "Q", "R", "S", "T", "U", "V", "W", "X", "Y", "Z",
      "a", "b", "c", "d", "e", "f", "g", "h", "i", "j", "k", "l", "m",
      "n", "o", "p", "q", "r", "s", "t", "u", "v", "w", "x", "y", "z",
      "0", "1", "2", "3", "4", "5", "6", "7", "8", "9", "+", "/">>

IsB64Char(c) == \E i \in 1..64 : B64Alphabet[i] = c

B64Val(c) == (CHOOSE i \in 1..64 : B64Alphabet[i] = c) - 1

B64Chr(v) == B64Alphabet[v + 1]

\* every 3 bytes give 4 characters; a last group of 1 or 2 bytes gives 2 or
\* 3 characters, the missing bytes counting as zero
EncodeToString(b) ==
    LET byte(j) == IF j <= Len(b) THEN b[j] ELSE 0
        chr(k)  ==
            LET q  == (k - 1) \div 4
                r  == (k - 1) % 4
                b1 == byte(3 * q + 1)
                b2 == byte(3 * q + 2)
                b3 == byte(3 * q + 3)
            IN  IF r = 0 THEN b1 \div 4
                ELSE IF r = 1 THEN (b1 % 4) * 16 + b2 \div 16
                ELSE IF r = 2 THEN (b2 % 16) * 4 + b3 \div 64
                ELSE b3 % 64
    IN  [k \in 1..((Len(b) * 4 + 2) \div 3) |-> B64Chr(chr(k))]

\* a lenient decoder that skips every character outside the alphabet
StripNonAlphabet(s) == SelectSeq(s, IsB64Char)

\* the decoder skips carriage returns and line feeds
StripNewlines(s) == SelectSeq(s, LAMBDA c : c \notin {"\n", "\r"})

\* a decoder that drops a last group of fewer than 4 characters
DecodeWholeQuanta(s) ==
    [j \in 1..(3 * (Len(s) \div 4)) |->
        LET q == (j - 1) \div 3
            r == (j - 1) % 3
        IN  IF r = 0 THEN B64Val(s[4 * q + 1]) * 4 + B64Val(s[4 * q + 2]) \div 16
            ELSE IF r = 1 THEN (B64Val(s[4 * q + 2]) % 16) * 16 + B64Val(s[4 * q + 3]) \div 4
            ELSE (B64Val(s[4 * q + 3]) % 4) * 64 + B64Val(s[4 * q + 4])]

\* the bytes of a text of alphabet characters: every 4 characters give 3
\* bytes; without padding a last group of 2 or 3 characters gives 1 or 2
\* bytes and its spare bits are dropped
DecodeQuanta(s) ==
    LET val(k)  == B64Val(s[k])
        byte(j) ==
            LET q == (j - 1) \div 3
                r == (j - 1) % 3
            IN  IF r = 0 THEN val(4 * q + 1) * 4 + val(4 * q + 2) \div 16
                ELSE IF r = 1 THEN (val(4 * q + 2) % 16) * 16 + val(4 * q + 3) \div 4
                ELSE (val(4 * q + 3) % 4) * 64 + val(4 * q + 4)
    IN  [j \in 1..((Len(s) * 3) \div 4) |-> byte(j)]

DecodeString(text) ==
    Let(StripNewlines(text), LAMBDA s :
        IF \E i \in 1..Len(s) : ~IsB64Char(s[i])
        THEN [err |-> "CorruptInputError", val |-> <<>>]
        ELSE IF Len(s) % 4 = 1
        THEN [err |-> "CorruptInputError", val |-> <<>>]
        ELSE [err |-> "nil", val |-> DecodeQuanta(s)])

(***************************************************************************)
(* fmt.Sscanf, for the formats the package uses.  A scan step returns the  *)
(* error ("nil" when none), the value and the input left.  A failure of    *)
(* fmt itself is "ScanError"; a failure of strconv, which fmt passes on,   *)
(* is "NumError".  A text is ASCII: a character is a byte.                  *)
(***************************************************************************)
\* fmt's isSpace over ASCII without the line feed: the space and the
\* characters 0x09 and 0x0B-0x0D (tab, vertical tab, form feed, carriage
\* return)
SpaceChars == {" ", "\t", "", "\f", "\r"}

\* ss.SkipSpace of a scan where newlines are not space: spaces are skipped
\* and a line feed is an error
SkipSpace(s) ==
    LET k == PrefixLen(s, SpaceChars)
    IN  IF k < Len(s) /\ s[k + 1] = "\n"
        THEN [err |-> "ScanError", rest |-> Drop(s, k)]
        ELSE [err |-> "nil", rest |-> Drop(s, k)]

\* ss.advance over literal text of the format: it must match the input
MatchLiteral(s, lit) ==
    IF HasPrefix(s, lit) THEN [err |-> "nil", rest |-> Drop(s, Len(lit))]
    ELSE [err |-> "ScanError", rest |-> s]

DigitSet == {DigitChars[i] : i \in 1..10}

\* ss.scanNumber with the digits of base 10, "0123456789_": the run of
\* digits and underscores
DigitRun(s) == Take(s, PrefixLen(s, DigitSet \cup {"_"}))

\* strconv.ParseUint and ParseInt with base 10 take digits only
AllDigits(tok) == \A i \in 1..Len(tok) : IsDigit(tok[i])

\* ss.scanUint for %d: the token of digits, strconv.ParseUint(tok, 10, 64),
\* then the check that the value fits the target's width
ScanUint(s0, maxDigits) ==
    Let(SkipSpace(s0), LAMBDA sp :
    Let(DigitRun(sp.rest), LAMBDA tok :
        IF sp.err # "nil" THEN [err |-> sp.err, tok |-> <<>>, rest |-> sp.rest]
        ELSE IF tok = <<>> THEN [err |-> "ScanError", tok |-> <<>>, rest |-> sp.rest]
        ELSE IF ~AllDigits(tok) \/ ~DecimalLe(tok, MaxUint64Digits)
        THEN [err |-> "NumError", tok |-> tok, rest |-> Drop(sp.rest, Len(tok))]
        ELSE IF ~DecimalLe(tok, maxDigits)
        THEN [err |-> "ScanError", tok |-> tok, rest |-> Drop(sp.rest, Len(tok))]
        ELSE [err |-> "nil", tok |-> tok, rest |-> Drop(sp.rest, Len(tok))]))

\* ss.scanInt for %d into an int (64 bits): an optional sign, the digits,
\* strconv.ParseInt(tok, 10, 64).  The value is the sign and the numeral
\* without leading zeros, exact over the whole int64 range.
ScanInt(s0) ==
    Let(SkipSpace(s0), LAMBDA sp :
    Let(IF sp.rest # <<>> /\ sp.rest[1] \in {"+", "-"} THEN 1 ELSE 0, LAMBDA ns :
    Let(DigitRun(Drop(sp.rest, ns)), LAMBDA tok :
        LET minus == ns = 1 /\ sp.rest[1] = "-"
            none  == [neg |-> FALSE, mag |-> <<"0">>]
            rest  == Drop(sp.rest, ns + Len(tok))
        IN  IF sp.err # "nil" THEN [err |-> sp.err, val |-> none, rest |-> sp.rest]
            ELSE IF tok = <<>> THEN [err |-> "ScanError", val |-> none, rest |-> rest]
            ELSE IF \/ ~AllDigits(tok)
                    \/ ~DecimalLe(tok, IF minus THEN MinInt64Digits ELSE MaxInt64Digits)
            THEN [err |-> "NumError", val |-> none, rest |-> rest]
            ELSE [err |-> "nil",
                  val |-> [neg |-> minus /\ StripZeros(tok) # <<"0">>,
                           mag |-> StripZeros(tok)],
                  rest |-> rest])))

\* the int n >= 0 as ScanInt represents it
IntOf(n) == [neg |-> FALSE, mag |-> FormatU32(U32(n))]

\* %s: the run of characters up to the next space; an empty input fails
ScanString(s0) ==
    Let(SkipSpace(s0), LAMBDA sp :
        IF sp.err # "nil" THEN [err |-> sp.err, val |-> <<>>]
        ELSE IF sp.rest = <<>> THEN [err |-> "ScanError", val |-> <<>>]
        ELSE [err |-> "nil",
              val |-> Take(sp.rest,
                           CHOOSE k \in 0..Len(sp.rest) :
                               /\ \A i \in 1..k : sp.rest[i] \notin SpaceChars \cup {"\n"}
                               /\ k = Len(sp.rest)
                                  \/ sp.rest[k + 1] \in SpaceChars \cup {"\n"})])

\* fmt.Sscanf(v, "<key>=%d", &x) with x a uint32 or a uint8
ScanKeyUint(v, key, maxDigits) ==
    Let(MatchLiteral(v, <<key, "=">>), LAMBDA lit :
        IF lit.err # "nil" THEN [err |-> lit.err, val |-> U32Zero, rest |-> v]
        ELSE Let(ScanUint(lit.rest, maxDigits), LAMBDA n :
             IF n.err # "nil" THEN [err |-> n.err, val |-> U32Zero, rest |-> n.rest]
             ELSE [err |-> "nil", val |-> DigitsToU32(n.tok),
                   rest |-> n.rest]))

(***************************************************************************)
(* The state: the Hasher a caller holds, the hash text it last created,    *)
(* the text handed to a parser, and the outcome of the last call.          *)
(***************************************************************************)
VARIABLES hasher, hash, input, res

vars == <<hasher, hash, input, res>>

FormI == 1

FormID == 2

\* argon2.Version of golang.org/x/crypto/argon2
Version == 19

Str_argon2i == <<"a", "r", "g", "o", "n", "2", "i">>

Str_argon2id == <<"a", "r", "g", "o", "n", "2", "i", "d">>

Str_argon2d == <<"a", "r", "g", "o", "n", "2", "d">>

\* &Hasher{}: every field has its zero value
ZeroHasher ==
    [Form |-> 0, SaltLength |-> U32Zero, KeyLength |-> U32Zero,
     Memory |-> U32Zero, Iterations |-> U32Zero, Parallelism |-> 0]

\* a validity test that looks at the numeric fields only
isValidNumeric(h) ==
    /\ h.SaltLength # U32Zero
    /\ h.KeyLength # U32Zero
    /\ h.Memory # U32Zero
    /\ h.Iterations # U32Zero
    /\ h.Parallelism > 0

\* a validity test that also requires one of the two variants
isValidStrict(h) == isValidNumeric(h) /\ h.Form \in {FormI, FormID}

isValid(h) ==
    /\ h.Form > 0
    /\ h.SaltLength # U32Zero
    /\ h.KeyLength # U32Zero
    /\ h.Memory # U32Zero
    /\ h.Iterations # U32Zero
    /\ h.Parallelism > 0

(***************************************************************************)
(* argon2.Key and argon2.IDKey.  The library is outside the package: it    *)
(* computes Argon2 version 19 (RFC 9106) with no secret and no associated  *)
(* data, and aborts (panics) when time or threads is zero, and on a zero   *)
(* key length.  Argon2Keys holds its values at the argument lists that the *)
(* specifications reach, as the algorithm of the RFC gives them: a row is  *)
(* the form (1 Argon2i, 2 Argon2id), the memory cost, the password, the    *)
(* salt, and the keys of 1, 2 and 3 bytes for time 3 and 2 threads.  A     *)
(* call with other arguments has the outcome "Unmodelled".                 *)
(***************************************************************************)
KDFAborts(time, threads, keyLen) == time = U32Zero \/ threads = 0 \/ keyLen = 0

\* the argument list of a call
KDFArgs(form, password, salt, time, memory, threads, keyLen) ==
    [form |-> form, password |-> password, salt |-> salt, time |-> time,
     memory |-> memory, threads |-> threads, keyLen |-> keyLen]

Argon2Keys ==
    {<<1, 65536, <<"P", "w">>, <<0>>, <<<<72>>, <<167, 116>>, <<90, 102, 246>>>>>>,
     <<1, 65536, <<"P", "w">>, <<3>>, <<<<219>>, <<182, 169>>, <<10, 227, 90>>>>>>,
     <<1, 65536, <<"P", "w">>, <<4>>, <<<<208>>, <<24, 148>>, <<39, 202, 185>>>>>>,
     <<1, 65536, <<"P", "w">>, <<7>>, <<<<42>>, <<41, 154>>, <<166, 142, 73>>>>>>,
     <<1, 65536, <<"P", "w">>, <<63>>, <<<<245>>, <<142, 255>>, <<54, 21, 237>>>>>>,
     <<1, 65536, <<"P", "w">>, <<192>>, <<<<164>>, <<150, 65>>, <<54, 61, 152>>>>>>,
     <<1, 65536, <<"P", "w">>, <<252>>, <<<<174>>, <<226, 222>>, <<205, 172, 216>>>>>>,
     <<1, 65536, <<"P", "w">>, <<255>>, <<<<246>>, <<108, 12>>, <<138, 136, 183>>>>>>,
     <<1, 65536, <<"P", "w">>, <<0, 0>>, <<<<163>>, <<174, 182>>, <<185, 167, 234>>>>>>,
     <<1, 65536, <<"P", "w">>, <<0, 15>>, <<<<152>>, <<63, 230>>, <<248, 221, 213>>>>>>,
     <<1, 65536, <<"P", "w">>, <<0, 16>>, <<<<63>>, <<91, 116>>, <<60, 152, 95>>>>>>,
     <<1, 65536, <<"P", "w">>, <<0, 31>>, <<<<95>>, <<43, 165>>, <<83, 143, 61>>>>>>,
     <<1, 65536, <<"P", "w">>, <<0, 63>>, <<<<198>>, <<113, 128>>, <<128, 235, 248>>>>>>,
     <<1, 65536, <<"P", "w">>, <<0, 240>>, <<<<212>>, <<3, 187>>, <<210, 22, 164>>>>>>,
     <<1, 65536, <<"P", "w">>, <<0, 255>>, <<<<123>>, <<59, 238>>, <<98, 212, 164>>>>>>,
     <<1, 65536, <<"P", "w">>, <<3, 192>>, <<<<144>>, <<150, 211>>, <<86, 46, 222>>>>>>,
     <<1, 65536, <<"P", "w">>, <<3, 240>>, <<<<200>>, <<232, 195>>, <<251, 127, 197>>>>>>,
     <<1, 65536, <<"P", "w">>, <<3, 255>>, <<<<153>>, <<57, 75>>, <<242, 227, 67>>>>>>,
     <<1, 65536, <<"P", "w">>, <<4, 0>>, <<<<169>>, <<49, 145>>, <<240, 209, 244>>>>>>,
     <<1, 65536, <<"P", "w">>, <<4, 255>>, <<<<79>>, <<236, 207>>, <<207, 107, 56>>>>>>,
     <<1, 65536, <<"P", "w">>, <<7, 0>>, <<<<216>>, <<95, 243>>, <<55, 73, 160>>>>>>,
     <<1, 65536, <<"P", "w">>, <<7, 255>>, <<<<223>>, <<178, 112>>, <<42, 215, 236>>>>>>,
     <<1, 65536, <<"P", "w">>, <<63, 192>>, <<<<42>>, <<212, 114>>, <<79, 46, 193>>>>>>,
     <<1, 65536, <<"P", "w">>, <<63, 255>>, <<<<217>>, <<94, 129>>, <<56, 30, 218>>>>>>,
     <<1, 65536, <<"P", "w">>, <<192, 0>>, <<<<175>>, <<35, 99>>, <<27, 224, 57>>>>>>,
     <<1, 65536, <<"P", "w">>, <<192, 63>>, <<<<51>>, <<34, 147>>, <<242, 38, 189>>>>>>,
     <<1, 65536, <<"P", "w">>, <<252, 0>>, <<<<20>>, <<194, 77>>, <<225, 150, 76>>>>>>,
     <<1, 65536, <<"P", "w">>, <<252, 16>>, <<<<183>>, <<240, 225>>, <<216, 168, 229>>>>>>,
     <<1, 65536, <<"P", "w">>, <<252, 31>>, <<<<41>>, <<176, 197>>, <<33, 172, 192>>>>>>,
     <<1, 65536, <<"P", "w">>, <<252, 63>>, <<<<11>>, <<168, 159>>, <<44, 80, 220>>>>>>,
     <<1, 65536, <<"P", "w">>, <<252, 255>>, <<<<130>>, <<37, 4>>, <<42, 65, 97>>>>>>,
     <<1, 65536, <<"P", "w">>, <<255, 0>>, <<<<21>>, <<51, 123>>, <<181, 23, 188>>>>>>,
     <<1, 65536, <<"P", "w">>, <<255, 15>>, <<<<183>>, <<151, 106>>, <<198, 248, 208>>>>>>,
     <<1, 65536, <<"P", "w">>, <<255, 192>>, <<<<65>>, <<111, 173>>, <<234, 168, 180>>>>>>,
     <<1, 65536, <<"P", "w">>, <<255, 240>>, <<<<101>>, <<247, 246>>, <<39, 234, 89>>>>>>,
     <<1, 65536, <<"P", "w">>, <<255, 255>>, <<<<82>>, <<215, 240>>, <<215, 142, 80>>>>>>,
     <<1, 65536, <<"P", "w">>, <<0, 0, 0>>, <<<<67>>, <<181, 64>>, <<2, 249, 42>>>>>>,
     <<1, 65536, <<"P", "w">>, <<0, 0, 1>>, <<<<170>>, <<172, 60>>, <<44, 195, 31>>>>>>,
     <<1, 65536, <<"P", "w">>, <<0, 0, 63>>, <<<<97>>, <<42, 154>>, <<109, 162, 62>>>>>>,
     <<1, 65536, <<"P", "w">>, <<0, 0, 64>>, <<<<182>>, <<20, 226>>, <<61, 230, 41>>>>>>,
     <<1, 65536, <<"P", "w">>, <<0, 0, 127>>, <<<<16>>, <<130, 109>>, <<146, 6, 6>>>>>>,
     <<1, 65536, <<"P", "w">>, <<0, 0, 193>>, <<<<197>>, <<27, 185>>, <<9, 126, 141>>>>>>,
     <<1, 65536, <<"P", "w">>, <<0, 0, 255>>, <<<<40>>, <<58, 240>>, <<43, 134, 228>>>>>>,
     <<1, 65536, <<"P", "w">>, <<0, 15, 192>>, <<<<46>>, <<205, 214>>, <<134, 233, 44>>>>>>,
     <<1, 65536, <<"P", "w">>, <<0, 15, 255>>, <<<<117>>, <<138, 204>>, <<144, 230, 221>>>>>>,
     <<1, 65536, <<"P", "w">>, <<0, 16, 0>>, <<<<219>>, <<161, 241>>, <<68, 68, 5>>>>>>,
     <<1, 65536, <<"P", "w">>, <<0, 16, 255>>, <<<<173>>, <<214, 148>>, <<101, 136, 211>>>>>>,
     <<1, 65536, <<"P", "w">>, <<0, 31, 0>>, <<<<205>>, <<223, 117>>, <<54, 27, 11>>>>>>,
     <<1, 65536, <<"P", "w">>, <<0, 31, 255>>, <<<<216>>, <<188, 165>>, <<113, 85, 248>>>>>>,
     <<1, 65536, <<"P", "w">>, <<0, 240, 64>>, <<<<225>>, <<115, 29>>, <<114, 14, 159>>>>>>,
     <<1, 65536, <<"P", "w">>, <<0, 240, 127>>, <<<<96>>, <<149, 138>>, <<164, 69, 186>>>>>>,
     <<1, 65536, <<"P", "w">>, <<0, 255, 0>>, <<<<185>>, <<55, 208>>, <<8, 116, 13>>>>>>,
     <<1, 65536, <<"P", "w">>, <<0, 255, 1>>, <<<<115>>, <<215, 115>>, <<212, 0, 189>>>>>>,
     <<1, 65536, <<"P", "w">>, <<0, 255, 63>>, <<<<212>>, <<92, 118>>, <<62, 107, 66>>>>>>,
     <<1, 65536, <<"P", "w">>, <<0, 255, 192>>, <<<<130>>, <<112, 104>>, <<106, 186, 175>>>>>>,
     <<1, 65536, <<"P", "w">>, <<0, 255, 193>>, <<<<43>>, <<39, 120>>, <<165, 197, 42>>>>>>,
     <<1, 65536, <<"P", "w">>, <<0, 255, 255>>, <<<<3>>, <<2, 90>>, <<244, 159, 94>>>>>>,
     <<1, 65536, <<"P", "w">>, <<3, 240, 0>>, <<<<116>>, <<40, 148>>, <<134, 106, 26>>>>>>,
     <<1, 65536, <<"P", "w">>, <<3, 240, 255>>, <<<<97>>, <<213, 66>>, <<114, 193, 143>>>>>>,
     <<1, 65536, <<"P", "w">>, <<3, 255, 0>>, <<<<153>>, <<165, 189>>, <<248, 103, 243>>>>>>,
     <<1, 65536, <<"P", "w">>, <<3, 255, 255>>, <<<<168>>, <<156, 0>>, <<94, 126, 205>>>>>>,
     <<1, 65536, <<"P", "w">>, <<4, 0, 0>>, <<<<163>>, <<10, 120>>, <<145, 252, 63>>>>>>,
     <<1, 65536, <<"P", "w">>, <<4, 0, 255>>, <<<<250>>, <<174, 81>>, <<159, 112, 216>>>>>>,
     <<1, 65536, <<"P", "w">>, <<4, 255, 0>>, <<<<153>>, <<193, 102>>, <<227, 54, 237>>>>>>,
     <<1, 65536, <<"P", "w">>, <<4, 255, 255>>, <<<<174>>, <<218, 34>>, <<0, 207, 45>>>>>>,
     <<1, 65536, <<"P", "w">>, <<7, 0, 0>>, <<<<106>>, <<147, 51>>, <<32, 126, 14>>>>>>,
     <<1, 65536, <<"P", "w">>, <<7, 0, 255>>, <<<<82>>, <<214, 158>>, <<216, 101, 99>>>>>>,
     <<1, 65536, <<"P", "w">>, <<7, 255, 0>>, <<<<136>>, <<184, 152>>, <<221, 233, 122>>>>>>,
     <<1, 65536, <<"P", "w">>, <<7, 255, 255>>, <<<<31>>, <<224, 228>>, <<136, 226, 39>>>>>>,
     <<1, 65536, <<"P", "w">>, <<252, 0, 0>>, <<<<213>>, <<56, 167>>, <<242, 133, 252>>>>>>,
     <<1, 65536, <<"P", "w">>, <<252, 0, 255>>, <<<<213>>, <<19, 70>>, <<247, 220, 10>>>>>>,
     <<1, 65536, <<"P", "w">>, <<252, 16, 0>>, <<<<36>>, <<115, 21>>, <<181, 42, 154>>>>>>,
     <<1, 65536, <<"P", "w">>, <<252, 16, 255>>, <<<<158>>, <<43, 158>>, <<41, 108, 232>>>>>>,
     <<1, 65536, <<"P", "w">>, <<252, 31, 0>>, <<<<7>>, <<60, 236>>, <<228, 125, 13>>>>>>,
     <<1, 65536, <<"P", "w">>, <<252, 31, 255>>, <<<<64>>, <<203, 77>>, <<144, 162, 143>>>>>>,
     <<1, 65536, <<"P", "w">>, <<252, 255, 0>>, <<<<78>>, <<236, 12>>, <<123, 111, 205>>>>>>,
     <<1, 65536, <<"P", "w">>, <<252, 255, 255>>, <<<<230>>, <<18, 30>>, <<209, 68, 85>>>>>>,
     <<1, 65536, <<"P", "w">>, <<255, 0, 0>>, <<<<44>>, <<13, 189>>, <<57, 191, 228>>>>>>,
     <<1, 65536, <<"P", "w">>, <<255, 0, 1>>, <<<<232>>, <<117, 54>>, <<243, 80, 182>>>>>>,
     <<1, 65536, <<"P", "w">>, <<255, 0, 63>>, <<<<195>>, <<215, 8>>, <<180, 163, 151>>>>>>,
     <<1, 65536, <<"P", "w">>, <<255, 0, 64>>, <<<<214>>, <<91, 242>>, <<112, 23, 199>>>>>>,
     <<1, 65536, <<"P", "w">>, <<255, 0, 127>>, <<<<2>>, <<177, 155>>, <<57, 14, 6>>>>>>,
     <<1, 65536, <<"P", "w">>, <<255, 0, 193>>, <<<<46>>, <<137, 156>>, <<158, 5, 201>>>>>>,
     <<1, 65536, <<"P", "w">>, <<255, 0, 255>>, <<<<244>>, <<87, 181>>, <<22, 230, 199>>>>>>,
     <<1, 65536, <<"P", "w">>, <<255, 15, 192>>, <<<<193>>, <<252, 112>>, <<158, 189, 166>>>>>>,
     <<1, 65536, <<"P", "w">>, <<255, 15, 255>>, <<<<56>>, <<188, 13>>, <<79, 95, 66>>>>>>,
     <<1, 65536, <<"P", "w">>, <<255, 240, 0>>, <<<<126>>, <<61, 119>>, <<25, 97, 116>>>>>>,
     <<1, 65536, <<"P", "w">>, <<255, 240, 64>>, <<<<61>>, <<251, 65>>, <<40, 120, 179>>>>>>,
     <<1, 65536, <<"P", "w">>, <<255, 240, 127>>, <<<<81>>, <<137, 172>>, <<47, 6, 104>>>>>>,
     <<1, 65536, <<"P", "w">>, <<255, 240, 255>>, <<<<164>>, <<92, 85>>, <<94, 157, 45>>>>>>,
     <<1, 65536, <<"P", "w">>, <<255, 255, 0>>, <<<<111>>, <<142, 139>>, <<148, 43, 8>>>>>>,
     <<1, 65536, <<"P", "w">>, <<255, 255, 1>>, <<<<193>>, <<184, 29>>, <<65, 128, 156>>>>>>,
     <<1, 65536, <<"P", "w">>, <<255, 255, 63>>, <<<<126>>, <<60, 43>>, <<62, 99, 62>>>>>>,
     <<1, 65536, <<"P", "w">>, <<255, 255, 192>>, <<<<246>>, <<42, 16>>, <<73, 222, 136>>>>>>,
     <<1, 65536, <<"P", "w">>, <<255, 255, 193>>, <<<<122>>, <<113, 85>>, <<108, 38, 143>>>>>>,
     <<1, 65536, <<"P", "w">>, <<255, 255, 255>>, <<<<171>>, <<79, 163>>, <<23, 225, 2>>>>>>,
     <<1, 65536, <<"a", "s">>, <<0>>, <<<<123>>, <<31, 37>>, <<235, 92, 186>>>>>>,
     <<1, 65536, <<"a", "s">>, <<3>>, <<<<75>>, <<123, 59>>, <<207, 156, 82>>>>>>,
     <<1, 65536, <<"a", "s">>, <<4>>, <<<<146>>, <<35, 60>>, <<5, 177, 89>>>>>>,
     <<1, 65536, <<"a", "s">>, <<7>>, <<<<160>>, <<222, 82>>, <<211, 181, 24>>>>>>,
     <<1, 65536, <<"a", "s">>, <<63>>, <<<<43>>, <<35, 226>>, <<6, 195, 140>>>>>>,
     <<1, 65536, <<"a", "s">>, <<192>>, <<<<41>>, <<245, 70>>, <<252, 191, 57>>>>>>,
     <<1, 65536, <<"a", "s">>, <<252>>, <<<<50>>, <<130, 3>>, <<215, 202, 20>>>>>>,
     <<1, 65536, <<"a", "s">>, <<255>>, <<<<215>>, <<53, 90>>, <<92, 95, 128>>>>>>,
     <<1, 65536, <<"a", "s">>, <<0, 0>>, <<<<173>>, <<46, 94>>, <<199, 77, 128>>>>>>,
     <<1, 65536, <<"a", "s">>, <<0, 15>>, <<<<215>>, <<226, 251>>, <<221, 108, 49>>>>>>,
     <<1, 65536, <<"a", "s">>, <<0, 16>>, <<<<63>>, <<111, 34>>, <<152, 236, 28>>>>>>,
     <<1, 65536, <<"a", "s">>, <<0, 31>>, <<<<192>>, <<197, 10>>, <<63, 80, 219>>>>>>,
     <<1, 65536, <<"a", "s">>, <<0, 63>>, <<<<91>>, <<136, 55>>, <<154, 107, 53>>>>>>,
     <<1, 65536, <<"a", "s">>, <<0, 240>>, <<<<234>>, <<187, 175>>, <<106, 108, 189>>>>>>,
     <<1, 65536, <<"a", "s">>, <<0, 255>>, <<<<211>>, <<151, 134>>, <<33, 251, 224>>>>>>,
     <<1, 65536, <<"a", "s">>, <<3, 192>>, <<<<61>>, <<27, 84>>, <<85, 38, 179>>>>>>,
     <<1, 65536, <<"a", "s">>, <<3, 240>>, <<<<95>>, <<57, 190>>, <<13, 169, 160>>>>>>,
     <<1, 65536, <<"a", "s">>, <<3, 255>>, <<<<162>>, <<202, 23>>, <<165, 205, 226>>>>>>,
     <<1, 65536, <<"a", "s">>, <<4, 0>>, <<<<42>>, <<139, 15>>, <<232, 25, 166>>>>>>,
     <<1, 65536, <<"a", "s">>, <<4, 255>>, <<<<2>>, <<6, 251>>, <<214, 176, 176>>>>>>,
     <<1, 65536, <<"a", "s">>, <<7, 0>>, <<<<212>>, <<46, 32>>, <<29, 21, 40>>>>>>,
     <<1, 65536, <<"a", "s">>, <<7, 255>>, <<<<245>>, <<250, 7>>, <<106, 4, 57>>>>>>,
     <<1, 65536, <<"a", "s">>, <<63, 192>>, <<<<178>>, <<169, 106>>, <<159, 219, 236>>>>>>,
     <<1, 65536, <<"a", "s">>, <<63, 255>>, <<<<50>>, <<138, 59>>, <<162, 253, 117>>>>>>,
     <<1, 65536, <<"a", "s">>, <<192, 0>>, <<<<72>>, <<114, 197>>, <<200, 154, 213>>>>>>,
     <<1, 65536, <<"a", "s">>, <<192, 63>>, <<<<217>>, <<102, 180>>, <<218, 22, 165>>>>>>,
     <<1, 65536, <<"a", "s">>, <<252, 0>>, <<<<64>>, <<203, 235>>, <<1, 210, 182>>>>>>,
     <<1, 65536, <<"a", "s">>, <<252, 16>>, <<<<78>>, <<173, 121>>, <<219, 7, 79>>>>>>,
     <<1, 65536, <<"a", "s">>, <<252, 31>>, <<<<74>>, <<47, 192>>, <<14, 155, 118>>>>>>,
     <<1, 65536, <<"a", "s">>, <<252, 63>>, <<<<152>>, <<75, 41>>, <<211, 230, 152>>>>>>,
     <<1, 65536, <<"a", "s">>, <<252, 255>>, <<<<241>>, <<144, 232>>, <<144, 232, 135>>>>>>,
     <<1, 65536, <<"a", "s">>, <<255, 0>>, <<<<126>>, <<160, 169>>, <<80, 137, 25>>>>>>,
     <<1, 65536, <<"a", "s">>, <<255, 15>>, <<<<38>>, <<122, 96>>, <<6, 116, 155>>>>>>,
     <<1, 65536, <<"a", "s">>, <<255, 192>>, <<<<117>>, <<54, 75>>, <<2, 16, 161>>>>>>,
     <<1, 65536, <<"a", "s">>, <<255, 240>>, <<<<3>>, <<17, 207>>, <<171, 92, 8>>>>>>,
     <<1, 65536, <<"a", "s">>, <<255, 255>>, <<<<166>>, <<61, 91>>, <<49, 32, 252>>>>>>,
     <<1, 65536, <<"a", "s">>, <<0, 0, 0>>, <<<<160>>, <<13, 43>>, <<235, 130, 1>>>>>>,
     <<1, 65536, <<"a", "s">>, <<0, 0, 1>>, <<<<21>>, <<30, 3>>, <<144, 70, 109>>>>>>,
     <<1, 65536, <<"a", "s">>, <<0, 0, 63>>, <<<<109>>, <<224, 165>>, <<11, 170, 145>>>>>>,
     <<1, 65536, <<"a", "s">>, <<0, 0, 64>>, <<<<32>>, <<110, 248>>, <<247, 49, 126>>>>>>,
     <<1, 65536, <<"a", "s">>, <<0, 0, 127>>, <<<<214>>, <<171, 164>>, <<247, 146, 229>>>>>>,
     <<1, 65536, <<"a", "s">>, <<0, 0, 193>>, <<<<42>>, <<140, 58>>, <<210, 138, 209>>>>>>,
     <<1, 65536, <<"a", "s">>, <<0, 0, 255>>, <<<<56>>, <<34, 48>>, <<213, 31, 133>>>>>>,
     <<1, 65536, <<"a", "s">>, <<0, 15, 192>>, <<<<134>>, <<21, 28>>, <<93, 26, 171>>>>>>,
     <<1, 65536, <<"a", "s">>, <<0, 15, 255>>, <<<<9>>, <<170, 54>>, <<148, 85, 214>>>>>>,
     <<1, 65536, <<"a", "s">>, <<0, 16, 0>>, <<<<139>>, <<37, 51>>, <<247, 63, 204>>>>>>,
     <<1, 65536, <<"a", "s">>, <<0, 16, 255>>, <<<<35>>, <<80, 75>>, <<39, 105, 222>>>>>>,
     <<1, 65536, <<"a", "s">>, <<0, 31, 0>>, <<<<251>>, <<62, 249>>, <<224, 108, 85>>>>>>,
     <<1, 65536, <<"a", "s">>, <<0, 31, 255>>, <<<<111>>, <<205, 112>>, <<41, 99, 3>>>>>>,
     <<1, 65536, <<"a", "s">>, <<0, 240, 64>>, <<<<141>>, <<140, 178>>, <<39, 58, 15>>>>>>,
     <<1, 65536, <<"a", "s">>, <<0, 240, 127>>, <<<<249>>, <<147, 151>>, <<155, 45, 184>>>>>>,
     <<1, 65536, <<"a", "s">>, <<0, 255, 0>>, <<<<100>>, <<197, 39>>, <<85, 194, 79>>>>>>,
     <<1, 65536, <<"a", "s">>, <<0, 255, 1>>, <<<<4>>, <<92, 125>>, <<218, 47, 163>>>>>>,
     <<1, 65536, <<"a", "s">>, <<0, 255, 63>>, <<<<218>>, <<203, 134>>, <<141, 221, 66>>>>>>,
     <<1, 65536, <<"a", "s">>, <<0, 255, 192>>, <<<<63>>, <<107, 156>>, <<26, 213, 243>>>>>>,
     <<1, 65536, <<"a", "s">>, <<0, 255, 193>>, <<<<96>>, <<148, 108>>, <<130, 184, 188>>>>>>,
     <<1, 65536, <<"a", "s">>, <<0, 255, 255>>, <<<<128>>, <<6, 46>>, <<53, 87, 139>>>>>>,
     <<1, 65536, <<"a", "s">>, <<3, 240, 0>>, <<<<29>>, <<180, 233>>, <<43, 100, 151>>>>>>,
     <<1, 65536, <<"a", "s">>, <<3, 240, 255>>, <<<<159>>, <<241, 183>>, <<198, 237, 218>>>>>>,
     <<1, 65536, <<"a", "s">>, <<3, 255, 0>>, <<<<34>>, <<0, 152>>, <<98, 79, 239>>>>>>,
     <<1, 65536, <<"a", "s">>, <<3, 255, 255>>, <<<<102>>, <<79, 77>>, <<37, 138, 194>>>>>>,
     <<1, 65536, <<"a", "s">>, <<4, 0, 0>>, <<<<81>>, <<12, 133>>, <<20, 95, 223>>>>>>,
     <<1, 65536, <<"a", "s">>, <<4, 0, 255>>, <<<<113>>, <<65, 51>>, <<99, 219, 204>>>>>>,
     <<1, 65536, <<"a", "s">>, <<4, 255, 0>>, <<<<121>>, <<4, 135>>, <<73, 238, 48>>>>>>,
     <<1, 65536, <<"a", "s">>, <<4, 255, 255>>, <<<<122>>, <<61, 11>>, <<196, 127, 75>>>>>>,
     <<1, 65536, <<"a", "s">>, <<7, 0, 0>>, <<<<221>>, <<92, 49>>, <<172, 62, 106>>>>>>,
     <<1, 65536, <<"a", "s">>, <<7, 0, 255>>, <<<<72>>, <<178, 4>>, <<225, 51, 243>>>>>>,
     <<1, 65536, <<"a", "s">>, <<7, 255, 0>>, <<<<113>>, <<187, 255>>, <<173, 7, 179>>>>>>,
     <<1, 65536, <<"a", "s">>, <<7, 255, 255>>, <<<<245>>, <<14, 46>>, <<22, 139, 52>>>>>>,
     <<1, 65536, <<"a", "s">>, <<252, 0, 0>>, <<<<100>>, <<181, 101>>, <<213, 50, 130>>>>>>,
     <<1, 65536, <<"a", "s">>, <<252, 0, 255>>, <<<<42>>, <<200, 66>>, <<171, 118, 163>>>>>>,
     <<1, 65536, <<"a", "s">>, <<252, 16, 0>>, <<<<247>>, <<237, 73>>, <<180, 57, 115>>>>>>,
     <<1, 65536, <<"a", "s">>, <<252, 16, 255>>, <<<<110>>, <<25, 9>>, <<97, 127, 151>>>>>>,
     <<1, 65536, <<"a", "s">>, <<252, 31, 0>>, <<<<18>>, <<37, 186>>, <<211, 255, 6>>>>>>,
     <<1, 65536, <<"a", "s">>, <<252, 31, 255>>, <<<<206>>, <<195, 220>>, <<179, 40, 199>>>>>>,
     <<1, 65536, <<"a", "s">>, <<252, 255, 0>>, <<<<24>>, <<211, 68>>, <<69, 65, 225>>>>>>,
     <<1, 65536, <<"a", "s">>, <<252, 255, 255>>, <<<<11>>, <<168, 50>>, <<241, 238, 130>>>>>>,
     <<1, 65536, <<"a", "s">>, <<255, 0, 0>>, <<<<183>>, <<248, 252>>, <<186, 163, 140>>>>>>,
     <<1, 65536, <<"a", "s">>, <<255, 0, 1>>, <<<<52>>, <<167, 177>>, <<93, 183, 175>>>>>>,
     <<1, 65536, <<"a", "s">>, <<255, 0, 63>>, <<<<188>>, <<113, 99>>, <<237, 176, 173>>>>>>,
     <<1, 65536, <<"a", "s">>, <<255, 0, 64>>, <<<<18>>, <<210, 163>>, <<185, 93, 195>>>>>>,
     <<1, 65536, <<"a", "s">>, <<255, 0, 127>>, <<<<117>>, <<86, 84>>, <<192, 167, 75>>>>>>,
     <<1, 65536, <<"a", "s">>, <<255, 0, 193>>, <<<<228>>, <<195, 98>>, <<235, 162, 18>>>>>>,
     <<1, 65536, <<"a", "s">>, <<255, 0, 255>>, <<<<55>>, <<6, 159>>, <<23, 178, 39>>>>>>,
     <<1, 65536, <<"a", "s">>, <<255, 15, 192>>, <<<<211>>, <<190, 16>>, <<35, 3, 120>>>>>>,
     <<1, 65536, <<"a", "s">>, <<255, 15, 255>>, <<<<6>>, <<99, 202>>, <<6, 182, 240>>>>>>,
     <<1, 65536, <<"a", "s">>, <<255, 240, 0>>, <<<<174>>, <<185, 233>>, <<204, 170, 162>>>>>>,
     <<1, 65536, <<"a", "s">>, <<255, 240, 64>>, <<<<250>>, <<96, 70>>, <<27, 161, 243>>>>>>,
     <<1, 65536, <<"a", "s">>, <<255, 240, 127>>, <<<<63>>, <<34, 71>>, <<11, 10, 130>>>>>>,
     <<1, 65536, <<"a", "s">>, <<255, 240, 255>>, <<<<248>>, <<136, 236>>, <<81, 198, 17>>>>>>,
     <<1, 65536, <<"a", "s">>, <<255, 255, 0>>, <<<<42>>, <<21, 175>>, <<217, 222, 151>>>>>>,
     <<1, 65536, <<"a", "s">>, <<255, 255, 1>>, <<<<78>>, <<207, 191>>, <<139, 164, 238>>>>>>,
     <<1, 65536, <<"a", "s">>, <<255, 255, 63>>, <<<<252>>, <<237, 242>>, <<4, 104, 46>>>>>>,
     <<1, 65536, <<"a", "s">>, <<255, 255, 192>>, <<<<140>>, <<61, 69>>, <<94, 89, 114>>>>>>,
     <<1, 65536, <<"a", "s">>, <<255, 255, 193>>, <<<<102>>, <<207, 254>>, <<157, 35, 10>>>>>>,
     <<1, 65536, <<"a", "s">>, <<255, 255, 255>>, <<<<128>>, <<2, 163>>, <<36, 65, 97>>>>>>,
     <<1, 65536, <<"p", "w">>, <<0>>, <<<<96>>, <<68, 80>>, <<53, 146, 106>>>>>>,
     <<1, 65536, <<"p", "w">>, <<3>>, <<<<23>>, <<148, 41>>, <<248, 50, 214>>>>>>,
     <<1, 65536, <<"p", "w">>, <<4>>, <<<<39>>, <<193, 206>>, <<72, 36, 187>>>>>>,
     <<1, 65536, <<"p", "w">>, <<7>>, <<<<52>>, <<152, 216>>, <<210, 137, 111>>>>>>,
     <<1, 65536, <<"p", "w">>, <<63>>, <<<<201>>, <<223, 205>>, <<180, 154, 8>>>>>>,
     <<1, 65536, <<"p", "w">>, <<192>>, <<<<95>>, <<57, 210>>, <<232, 108, 39>>>>>>,
     <<1, 65536, <<"p", "w">>, <<252>>, <<<<52>>, <<52, 34>>, <<43, 193, 168>>>>>>,
     <<1, 65536, <<"p", "w">>, <<255>>, <<<<116>>, <<11, 63>>, <<136, 62, 64>>>>>>,
     <<1, 65536, <<"p", "w">>, <<0, 0>>, <<<<214>>, <<81, 237>>, <<117, 72, 136>>>>>>,
     <<1, 65536, <<"p", "w">>, <<0, 15>>, <<<<172>>, <<124, 133>>, <<94, 23, 137>>>>>>,
     <<1, 65536, <<"p", "w">>, <<0, 16>>, <<<<206>>, <<104, 36>>, <<76, 31, 153>>>>>>,
     <<1, 65536, <<"p", "w">>, <<0, 31>>, <<<<191>>, <<211, 3>>, <<230, 138, 226>>>>>>,
     <<1, 65536, <<"p", "w">>, <<0, 63>>, <<<<146>>, <<224, 122>>, <<179, 104, 80>>>>>>,
     <<1, 65536, <<"p", "w">>, <<0, 240>>, <<<<221>>, <<0, 145>>, <<8, 198, 50>>>>>>,
     <<1, 65536, <<"p", "w">>, <<0, 255>>, <<<<196>>, <<128, 84>>, <<85, 189, 12>>>>>>,
     <<1, 65536, <<"p", "w">>, <<3, 192>>, <<<<188>>, <<95, 127>>, <<126, 27, 244>>>>>>,
     <<1, 65536, <<"p", "w">>, <<3, 240>>, <<<<174>>, <<19, 78>>, <<253, 221, 8>>>>>>,
     <<1, 65536, <<"p", "w">>, <<3, 255>>, <<<<86>>, <<187, 97>>, <<98, 171, 118>>>>>>,
     <<1, 65536, <<"p", "w">>, <<4, 0>>, <<<<209>>, <<188, 164>>, <<198, 140, 5>>>>>>,
     <<1, 65536, <<"p", "w">>, <<4, 255>>, <<<<90>>, <<194, 135>>, <<58, 0, 34>>>>>>,
     <<1, 65536, <<"p", "w">>, <<7, 0>>, <<<<253>>, <<73, 195>>, <<170, 11, 109>>>>>>,
     <<1, 65536, <<"p", "w">>, <<7, 255>>, <<<<186>>, <<108, 73>>, <<153, 149, 177>>>>>>,
     <<1, 65536, <<"p", "w">>, <<63, 192>>, <<<<154>>, <<215, 7>>, <<30, 162, 64>>>>>>,
     <<1, 65536, <<"p", "w">>, <<63, 255>>, <<<<117>>, <<135, 174>>, <<217, 90, 111>>>>>>,
     <<1, 65536, <<"p", "w">>, <<192, 0>>, <<<<185>>, <<157, 97>>, <<127, 209, 243>>>>>>,
     <<1, 65536, <<"p", "w">>, <<192, 63>>, <<<<38>>, <<77, 129>>, <<216, 62, 138>>>>>>,
     <<1, 65536, <<"p", "w">>, <<252, 0>>, <<<<254>>, <<62, 35>>, <<187, 171, 187>>>>>>,
     <<1, 65536, <<"p", "w">>, <<252, 16>>, <<<<134>>, <<29, 67>>, <<96, 218, 223>>>>>>,
     <<1, 65536, <<"p", "w">>, <<252, 31>>, <<<<122>>, <<21, 137>>, <<218, 3, 192>>>>>>,
     <<1, 65536, <<"p", "w">>, <<252, 63>>, <<<<66>>, <<45, 101>>, <<52, 102, 115>>>>>>,
     <<1, 65536, <<"p", "w">>, <<252, 255>>, <<<<215>>, <<240, 73>>, <<6, 150, 86>>>>>>,
     <<1, 65536, <<"p", "w">>, <<255, 0>>, <<<<85>>, <<86, 84>>, <<204, 63, 224>>>>>>,
     <<1, 65536, <<"p", "w">>, <<255, 15>>, <<<<8>>, <<190, 133>>, <<81, 21, 183>>>>>>,
     <<1, 65536, <<"p", "w">>, <<255, 192>>, <<<<120>>, <<203, 33>>, <<196, 176, 81>>>>>>,
     <<1, 65536, <<"p", "w">>, <<255, 240>>, <<<<142>>, <<88, 94>>, <<13, 151, 59>>>>>>,
     <<1, 65536, <<"p", "w">>, <<255, 255>>, <<<<50>>, <<184, 8>>, <<186, 130, 236>>>>>>,
     <<1, 65536, <<"p", "w">>, <<0, 0, 0>>, <<<<87>>, <<125, 153>>, <<85, 250, 39>>>>>>,
     <<1, 65536, <<"p", "w">>, <<0, 0, 1>>, <<<<75>>, <<203, 99>>, <<9, 250, 63>>>>>>,
     <<1, 65536, <<"p", "w">>, <<0, 0, 63>>, <<<<196>>, <<7, 74>>, <<61, 5, 47>>>>>>,
     <<1, 65536, <<"p", "w">>, <<0, 0, 64>>, <<<<192>>, <<68, 143>>, <<119, 245, 43>>>>>>,
     <<1, 65536, <<"p", "w">>, <<0, 0, 127>>, <<<<175>>, <<54, 240>>, <<202, 191, 248>>>>>>,
     <<1, 65536, <<"p", "w">>, <<0, 0, 193>>, <<<<46>>, <<123, 146>>, <<84, 132, 22>>>>>>,
     <<1, 65536, <<"p", "w">>, <<0, 0, 255>>, <<<<116>>, <<240, 223>>, <<158, 233, 162>>>>>>,
     <<1, 65536, <<"p", "w">>, <<0, 15, 192>>, <<<<205>>, <<102, 220>>, <<58, 129, 228>>>>>>,
     <<1, 65536, <<"p", "w">>, <<0, 15, 255>>, <<<<52>>, <<75, 34>>, <<185, 71, 142>>>>>>,
     <<1, 65536, <<"p", "w">>, <<0, 16, 0>>, <<<<48>>, <<61, 163>>, <<215, 22, 186>>>>>>,
     <<1, 65536, <<"p", "w">>, <<0, 16, 255>>, <<<<241>>, <<185, 22>>, <<144, 151, 166>>>>>>,
     <<1, 65536, <<"p", "w">>, <<0, 31, 0>>, <<<<77>>, <<105, 3>>, <<160, 32, 131>>>>>>,
     <<1, 65536, <<"p", "w">>, <<0, 31, 255>>, <<<<127>>, <<141, 85>>, <<171, 27, 212>>>>>>,
     <<1, 65536, <<"p", "w">>, <<0, 240, 64>>, <<<<121>>, <<52, 68>>, <<196, 225, 124>>>>>>,
     <<1, 65536, <<"p", "w">>, <<0, 240, 127>>, <<<<82>>, <<223, 204>>, <<20, 240, 12>>>>>>,
     <<1, 65536, <<"p", "w">>, <<0, 255, 0>>, <<<<18>>, <<99, 122>>, <<119, 110, 142>>>>>>,
     <<1, 65536, <<"p", "w">>, <<0, 255, 1>>, <<<<56>>, <<59, 229>>, <<12, 76, 3>>>>>>,
     <<1, 65536, <<"p", "w">>, <<0, 255, 63>>, <<<<45>>, <<11, 232>>, <<186, 230, 142>>>>>>,
     <<1, 65536, <<"p", "w">>, <<0, 255, 192>>, <<<<30>>, <<11, 165>>, <<111, 240, 97>>>>>>,
     <<1, 65536, <<"p", "w">>, <<0, 255, 193>>, <<<<248>>, <<25, 196>>, <<181, 45, 181>>>>>>,
     <<1, 65536, <<"p", "w">>, <<0, 255, 255>>, <<<<100>>, <<15, 228>>, <<199, 13, 212>>>>>>,
     <<1, 65536, <<"p", "w">>, <<3, 240, 0>>, <<<<91>>, <<128, 137>>, <<74, 168, 170>>>>>>,
     <<1, 65536, <<"p", "w">>, <<3, 240, 255>>, <<<<140>>, <<255, 155>>, <<63, 189, 211>>>>>>,
     <<1, 65536, <<"p", "w">>, <<3, 255, 0>>, <<<<167>>, <<32, 227>>, <<29, 168, 27>>>>>>,
     <<1, 65536, <<"p", "w">>, <<3, 255, 255>>, <<<<216>>, <<170, 16>>, <<83, 93, 155>>>>>>,
     <<1, 65536, <<"p", "w">>, <<4, 0, 0>>, <<<<80>>, <<217, 103>>, <<50, 254, 10>>>>>>,
     <<1, 65536, <<"p", "w">>, <<4, 0, 255>>, <<<<231>>, <<100, 142>>, <<228, 214, 232>>>>>>,
     <<1, 65536, <<"p", "w">>, <<4, 255, 0>>, <<<<246>>, <<28, 184>>, <<170, 96, 149>>>>>>,
     <<1, 65536, <<"p", "w">>, <<4, 255, 255>>, <<<<174>>, <<213, 151>>, <<89, 200, 50>>>>>>,
     <<1, 65536, <<"p", "w">>, <<7, 0, 0>>, <<<<60>>, <<28, 45>>, <<191, 227, 92>>>>>>,
     <<1, 65536, <<"p", "w">>, <<7, 0, 255>>, <<<<215>>, <<120, 119>>, <<214, 134, 204>>>>>>,
     <<1, 65536, <<"p", "w">>, <<7, 255, 0>>, <<<<196>>, <<111, 221>>, <<102, 172, 212>>>>>>,
     <<1, 65536, <<"p", "w">>, <<7, 255, 255>>, <<<<67>>, <<233, 79>>, <<44, 186, 25>>>>>>,
     <<1, 65536, <<"p", "w">>, <<252, 0, 0>>, <<<<198>>, <<233, 180>>, <<227, 6, 238>>>>>>,
     <<1, 65536, <<"p", "w">>, <<252, 0, 255>>, <<<<172>>, <<205, 235>>, <<245, 161, 194>>>>>>,
     <<1, 65536, <<"p", "w">>, <<252, 16, 0>>, <<<<99>>, <<223, 66>>, <<210, 198, 240>>>>>>,
     <<1, 65536, <<"p", "w">>, <<252, 16, 255>>, <<<<73>>, <<186, 197>>, <<225, 251, 44>>>>>>,
     <<1, 65536, <<"p", "w">>, <<252, 31, 0>>, <<<<241>>, <<219, 71>>, <<163, 209, 55>>>>>>,
     <<1, 65536, <<"p", "w">>, <<252, 31, 255>>, <<<<233>>, <<27, 181>>, <<226, 3, 227>>>>>>,
     <<1, 65536, <<"p", "w">>, <<252, 255, 0>>, <<<<241>>, <<94, 127>>, <<17, 239, 29>>>>>>,
     <<1, 65536, <<"p", "w">>, <<252, 255, 255>>, <<<<85>>, <<60, 76>>, <<188, 180, 25>>>>>>,
     <<1, 65536, <<"p", "w">>, <<255, 0, 0>>, <<<<0>>, <<112, 150>>, <<197, 42, 247>>>>>>,
     <<1, 65536, <<"p", "w">>, <<255, 0, 1>>, <<<<251>>, <<54, 168>>, <<211, 91, 83>>>>>>,
     <<1, 65536, <<"p", "w">>, <<255, 0, 63>>, <<<<24>>, <<165, 166>>, <<117, 59, 51>>>>>>,
     <<1, 65536, <<"p", "w">>, <<255, 0, 64>>, <<<<110>>, <<152, 193>>, <<67, 185, 28>>>>>>,
     <<1, 65536, <<"p", "w">>, <<255, 0, 127>>, <<<<8>>, <<122, 118>>, <<88, 126, 182>>>>>>,
     <<1, 65536, <<"p", "w">>, <<255, 0, 193>>, <<<<207>>, <<139, 45>>, <<252, 224, 138>>>>>>,
     <<1, 65536, <<"p", "w">>, <<255, 0, 255>>, <<<<31>>, <<63, 57>>, <<5, 131, 65>>>>>>,
     <<1, 65536, <<"p", "w">>, <<255, 15, 192>>, <<<<116>>, <<166, 223>>, <<138, 65, 29>>>>>>,
     <<1, 65536, <<"p", "w">>, <<255, 15, 255>>, <<<<254>>, <<211, 102>>, <<127, 13, 54>>>>>>,
     <<1, 65536, <<"p", "w">>, <<255, 240, 0>>, <<<<80>>, <<101, 246>>, <<120, 125, 123>>>>>>,
     <<1, 65536, <<"p", "w">>, <<255, 240, 64>>, <<<<74>>, <<50, 206>>, <<222, 35, 8>>>>>>,
     <<1, 65536, <<"p", "w">>, <<255, 240, 127>>, <<<<248>>, <<119, 239>>, <<253, 86, 8>>>>>>,
     <<1, 65536, <<"p", "w">>, <<255, 240, 255>>, <<<<76>>, <<4, 37>>, <<6, 78, 53>>>>>>,
     <<1, 65536, <<"p", "w">>, <<255, 255, 0>>, <<<<241>>, <<22, 79>>, <<188, 153, 203>>>>>>,
     <<1, 65536, <<"p", "w">>, <<255, 255, 1>>, <<<<45>>, <<99, 53>>, <<53, 184, 8>>>>>>,
     <<1, 65536, <<"p", "w">>, <<255, 255, 63>>, <<<<187>>, <<230, 81>>, <<138, 255, 226>>>>>>,
     <<1, 65536, <<"p", "w">>, <<255, 255, 192>>, <<<<50>>, <<21, 24>>, <<200, 254, 215>>>>>>,
     <<1, 65536, <<"p", "w">>, <<255, 255, 193>>, <<<<88>>, <<39, 171>>, <<237, 92, 135>>>>>>,
     <<1, 65536, <<"p", "w">>, <<255, 255, 255>>, <<<<208>>, <<81, 100>>, <<120, 254, 150>>>>>>,
     <<1, 8, <<"P", "w">>, <<0, 0>>, <<<<125>>, <<48, 75>>, <<142, 136, 237>>>>>>,
     <<1, 8, <<"a", "s">>, <<0, 0>>, <<<<108>>, <<255, 5>>, <<114, 224, 202>>>>>>,
     <<1, 8, <<"p", "w">>, <<0, 0>>, <<<<89>>, <<184, 150>>, <<193, 107, 3>>>>>>,
     <<2, 65536, <<"P", "w">>, <<0>>, <<<<143>>, <<119, 209>>, <<105, 60, 254>>>>>>,
     <<2, 65536, <<"P", "w">>, <<3>>, <<<<149>>, <<30, 228>>, <<142, 219, 153>>>>>>,
     <<2, 65536, <<"P", "w">>, <<4>>, <<<<233>>, <<248, 187>>, <<215, 69, 249>>>>>>,
     <<2, 65536, <<"P", "w">>, <<7>>, <<<<68>>, <<134, 142>>, <<8, 132, 118>>>>>>,
     <<2, 65536, <<"P", "w">>, <<63>>, <<<<53>>, <<171, 50>>, <<188, 204, 244>>>>>>,
     <<2, 65536, <<"P", "w">>, <<192>>, <<<<224>>, <<30, 101>>, <<3, 119, 117>>>>>>,
     <<2, 65536, <<"P", "w">>, <<252>>, <<<<157>>, <<108, 133>>, <<130, 72, 44>>>>>>,
     <<2, 65536, <<"P", "w">>, <<255>>, <<<<79>>, <<232, 36>>, <<86, 110, 201>>>>>>,
     <<2, 65536, <<"P", "w">>, <<0, 0>>, <<<<144>>, <<36, 181>>, <<128, 250, 204>>>>>>,
     <<2, 65536, <<"P", "w">>, <<0, 15>>, <<<<148>>, <<185, 216>>, <<219, 89, 254>>>>>>,
     <<2, 65536, <<"P", "w">>, <<0, 16>>, <<<<58>>, <<177, 189>>, <<217, 205, 150>>>>>>,
     <<2, 65536, <<"P", "w">>, <<0, 31>>, <<<<30>>, <<83, 63>>, <<80, 164, 131>>>>>>,
     <<2, 65536, <<"P", "w">>, <<0, 63>>, <<<<122>>, <<96, 183>>, <<219, 169, 68>>>>>>,
     <<2, 65536, <<"P", "w">>, <<0, 240>>, <<<<129>>, <<169, 152>>, <<236, 60, 83>>>>>>,
     <<2, 65536, <<"P", "w">>, <<0, 255>>, <<<<248>>, <<204, 19>>, <<211, 103, 49>>>>>>,
     <<2, 65536, <<"P", "w">>, <<3, 192>>, <<<<171>>, <<98, 24>>, <<48, 70, 207>>>>>>,
     <<2, 65536, <<"P", "w">>, <<3, 240>>, <<<<233>>, <<113, 117>>, <<241, 215, 213>>>>>>,
     <<2, 65536, <<"P", "w">>, <<3, 255>>, <<<<222>>, <<30, 114>>, <<135, 230, 182>>>>>>,
     <<2, 65536, <<"P", "w">>, <<4, 0>>, <<<<130>>, <<24, 54>>, <<37, 84, 148>>>>>>,
     <<2, 65536, <<"P", "w">>, <<4, 255>>, <<<<83>>, <<40, 80>>, <<212, 84, 183>>>>>>,
     <<2, 65536, <<"P", "w">>, <<7, 0>>, <<<<154>>, <<129, 194>>, <<80, 146, 25>>>>>>,
     <<2, 65536, <<"P", "w">>, <<7, 255>>, <<<<127>>, <<164, 154>>, <<35, 25, 134>>>>>>,
     <<2, 65536, <<"P", "w">>, <<63, 192>>, <<<<171>>, <<196, 186>>, <<103, 168, 28>>>>>>,
     <<2, 65536, <<"P", "w">>, <<63, 255>>, <<<<198>>, <<62, 250>>, <<168, 85, 105>>>>>>,
     <<2, 65536, <<"P", "w">>, <<192, 0>>, <<<<76>>, <<186, 214>>, <<254, 231, 184>>>>>>,
     <<2, 65536, <<"P", "w">>, <<192, 63>>, <<<<240>>, <<130, 90>>, <<39, 46, 57>>>>>>,
     <<2, 65536, <<"P", "w">>, <<252, 0>>, <<<<199>>, <<48, 51>>, <<128, 189, 251>>>>>>,
     <<2, 65536, <<"P", "w">>, <<252, 16>>, <<<<138>>, <<5, 103>>, <<57, 89, 169>>>>>>,
     <<2, 65536, <<"P", "w">>, <<252, 31>>, <<<<225>>, <<137, 50>>, <<114, 100, 228>>>>>>,
     <<2, 65536, <<"P", "w">>, <<252, 63>>, <<<<198>>, <<209, 108>>, <<165, 38, 96>>>>>>,
     <<2, 65536, <<"P", "w">>, <<252, 255>>, <<<<245>>, <<213, 248>>, <<142, 13, 25>>>>>>,
     <<2, 65536, <<"P", "w">>, <<255, 0>>, <<<<154>>, <<82, 108>>, <<90, 93, 248>>>>>>,
     <<2, 65536, <<"P", "w">>, <<255, 15>>, <<<<226>>, <<37, 201>>, <<4, 65, 140>>>>>>,
     <<2, 65536, <<"P", "w">>, <<255, 192>>, <<<<67>>, <<235, 190>>, <<247, 37, 101>>>>>>,
     <<2, 65536, <<"P", "w">>, <<255, 240>>, <<<<126>>, <<180, 216>>, <<174, 70, 153>>>>>>,
     <<2, 65536, <<"P", "w">>, <<255, 255>>, <<<<42>>, <<151, 246>>, <<139, 79, 46>>>>>>,
     <<2, 65536, <<"P", "w">>, <<0, 0, 0>>, <<<<224>>, <<26, 222>>, <<245, 105, 96>>>>>>,
     <<2, 65536, <<"P", "w">>, <<0, 0, 1>>, <<<<47>>, <<70, 251>>, <<43, 166, 54>>>>>>,
     <<2, 65536, <<"P", "w">>, <<0, 0, 63>>, <<<<50>>, <<148, 52>>, <<24, 15, 26>>>>>>,
     <<2, 65536, <<"P", "w">>, <<0, 0, 64>>, <<<<97>>, <<255, 230>>, <<29, 4, 65>>>>>>,
     <<2, 65536, <<"P", "w">>, <<0, 0, 127>>, <<<<131>>, <<143, 135>>, <<76, 118, 189>>>>>>,
     <<2, 65536, <<"P", "w">>, <<0, 0, 193>>, <<<<24>>, <<16, 83>>, <<190, 233, 253>>>>>>,
     <<2, 65536, <<"P", "w">>, <<0, 0, 255>>, <<<<41>>, <<45, 138>>, <<255, 85, 182>>>>>>,
     <<2, 65536, <<"P", "w">>, <<0, 15, 192>>, <<<<182>>, <<148, 163>>, <<190, 224, 151>>>>>>,
     <<2, 65536, <<"P", "w">>, <<0, 15, 255>>, <<<<182>>, <<159, 123>>, <<15, 248, 85>>>>>>,
     <<2, 65536, <<"P", "w">>, <<0, 16, 0>>, <<<<146>>, <<211, 126>>, <<60, 95, 248>>>>>>,
     <<2, 65536, <<"P", "w">>, <<0, 16, 255>>, <<<<45>>, <<117, 84>>, <<59, 238, 245>>>>>>,
     <<2, 65536, <<"P", "w">>, <<0, 31, 0>>, <<<<238>>, <<246, 108>>, <<168, 142, 201>>>>>>,
     <<2, 65536, <<"P", "w">>, <<0, 31, 255>>, <<<<163>>, <<170, 244>>, <<12, 185, 74>>>>>>,
     <<2, 65536, <<"P", "w">>, <<0, 240, 64>>, <<<<176>>, <<184, 146>>, <<231, 57, 58>>>>>>,
     <<2, 65536, <<"P", "w">>, <<0, 240, 127>>, <<<<251>>, <<165, 108>>, <<23, 209, 237>>>>>>,
     <<2, 65536, <<"P", "w">>, <<0, 255, 0>>, <<<<21>>, <<231, 220>>, <<187, 141, 196>>>>>>,
     <<2, 65536, <<"P", "w">>, <<0, 255, 1>>, <<<<122>>, <<49, 9>>, <<222, 21, 239>>>>>>,
     <<2, 65536, <<"P", "w">>, <<0, 255, 63>>, <<<<107>>, <<23, 57>>, <<122, 220, 47>>>>>>,
     <<2, 65536, <<"P", "w">>, <<0, 255, 192>>, <<<<153>>, <<193, 135>>, <<206, 148, 184>>>>>>,
     <<2, 65536, <<"P", "w">>, <<0, 255, 193>>, <<<<60>>, <<71, 248>>, <<23, 226, 120>>>>>>,
     <<2, 65536, <<"P", "w">>, <<0, 255, 255>>, <<<<175>>, <<243, 240>>, <<233, 184, 50>>>>>>,
     <<2, 65536, <<"P", "w">>, <<3, 240, 0>>, <<<<160>>, <<21, 88>>, <<120, 143, 245>>>>>>,
     <<2, 65536, <<"P", "w">>, <<3, 240, 255>>, <<<<138>>, <<185, 232>>, <<68, 154, 149>>>>>>,
     <<2, 65536, <<"P", "w">>, <<3, 255, 0>>, <<<<0>>, <<113, 172>>, <<250, 21, 141>>>>>>,
     <<2, 65536, <<"P", "w">>, <<3, 255, 255>>, <<<<220>>, <<238, 106>>, <<250, 43, 45>>>>>>,
     <<2, 65536, <<"P", "w">>, <<4, 0, 0>>, <<<<151>>, <<152, 232>>, <<243, 99, 106>>>>>>,
     <<2, 65536, <<"P", "w">>, <<4, 0, 255>>, <<<<197>>, <<218, 196>>, <<234, 253, 97>>>>>>,
     <<2, 65536, <<"P", "w">>, <<4, 255, 0>>, <<<<157>>, <<228, 1>>, <<252, 184, 1>>>>>>,
     <<2, 65536, <<"P", "w">>, <<4, 255, 255>>, <<<<106>>, <<115, 225>>, <<3, 207, 7>>>>>>,
     <<2, 65536, <<"P", "w">>, <<7, 0, 0>>, <<<<2>>, <<13, 229>>, <<106, 161, 223>>>>>>,
     <<2, 65536, <<"P", "w">>, <<7, 0, 255>>, <<<<207>>, <<230, 235>>, <<254, 231, 10>>>>>>,
     <<2, 65536, <<"P", "w">>, <<7, 255, 0>>, <<<<45>>, <<141, 74>>, <<142, 78, 75>>>>>>,
     <<2, 65536, <<"P", "w">>, <<7, 255, 255>>, <<<<248>>, <<69, 35>>, <<24, 22, 251>>>>>>,
     <<2, 65536, <<"P", "w">>, <<252, 0, 0>>, <<<<71>>, <<77, 70>>, <<44, 154, 116>>>>>>,
     <<2, 65536, <<"P", "w">>, <<252, 0, 255>>, <<<<32>>, <<99, 198>>, <<24, 164, 150>>>>>>,
     <<2, 65536, <<"P", "w">>, <<252, 16, 0>>, <<<<186>>, <<194, 247>>, <<12, 69, 44>>>>>>,
     <<2, 65536, <<"P", "w">>, <<252, 16, 255>>, <<<<77>>, <<42, 16>>, <<48, 73, 235>>>>>>,
     <<2, 65536, <<"P", "w">>, <<252, 31, 0>>, <<<<210>>, <<122, 160>>, <<14, 67, 18>>>>>>,
     <<2, 65536, <<"P", "w">>, <<252, 31, 255>>, <<<<110>>, <<100, 25>>, <<197, 78, 1>>>>>>,
     <<2, 65536, <<"P", "w">>, <<252, 255, 0>>, <<<<94>>, <<233, 162>>, <<225, 139, 165>>>>>>,
     <<2, 65536, <<"P", "w">>, <<252, 255, 255>>, <<<<176>>, <<85, 78>>, <<103, 91, 102>>>>>>,
     <<2, 65536, <<"P", "w">>, <<255, 0, 0>>, <<<<138>>, <<208, 4>>, <<156, 79, 24>>>>>>,
     <<2, 65536, <<"P", "w">>, <<255, 0, 1>>, <<<<65>>, <<116, 36>>, <<78, 28, 144>>>>>>,
     <<2, 65536, <<"P", "w">>, <<255, 0, 63>>, <<<<102>>, <<144, 1>>, <<77, 232, 145>>>>>>,
     <<2, 65536, <<"P", "w">>, <<255, 0, 64>>, <<<<52>>, <<153, 5>>, <<12, 160, 233>>>>>>,
     <<2, 65536, <<"P", "w">>, <<255, 0, 127>>, <<<<134>>, <<32, 142>>, <<66, 75, 128>>>>>>,
     <<2, 65536, <<"P", "w">>, <<255, 0, 193>>, <<<<91>>, <<107, 157>>, <<207, 107, 221>>>>>>,
     <<2, 65536, <<"P", "w">>, <<255, 0, 255>>, <<<<42>>, <<155, 25>>, <<156, 243, 41>>>>>>,
     <<2, 65536, <<"P", "w">>, <<255, 15, 192>>, <<<<47>>, <<169, 166>>, <<167, 107, 63>>>>>>,
     <<2, 65536, <<"P", "w">>, <<255, 15, 255>>, <<<<53>>, <<149, 186>>, <<154, 156, 64>>>>>>,
     <<2, 65536, <<"P", "w">>, <<255, 240, 0>>, <<<<238>>, <<114, 57>>, <<34, 175, 58>>>>>>,
     <<2, 65536, <<"P", "w">>, <<255, 240, 64>>, <<<<11>>, <<248, 246>>, <<226, 60, 101>>>>>>,
     <<2, 65536, <<"P", "w">>, <<255, 240, 127>>, <<<<162>>, <<36, 94>>, <<225, 186, 69>>>>>>,
     <<2, 65536, <<"P", "w">>, <<255, 240, 255>>, <<<<150>>, <<137, 51>>, <<208, 86, 187>>>>>>,
     <<2, 65536, <<"P", "w">>, <<255, 255, 0>>, <<<<0>>, <<8, 96>>, <<189, 3, 233>>>>>>,
     <<2, 65536, <<"P", "w">>, <<255, 255, 1>>, <<<<45>>, <<16, 255>>, <<151, 205, 145>>>>>>,
     <<2, 65536, <<"P", "w">>, <<255, 255, 63>>, <<<<114>>, <<35, 226>>, <<194, 169, 25>>>>>>,
     <<2, 65536, <<"P", "w">>, <<255, 255, 192>>, <<<<222>>, <<172, 148>>, <<158, 94, 208>>>>>>,
     <<2, 65536, <<"P", "w">>, <<255, 255, 193>>, <<<<211>>, <<134, 245>>, <<185, 101, 40>>>>>>,
     <<2, 65536, <<"P", "w">>, <<255, 255, 255>>, <<<<172>>, <<146, 242>>, <<187, 138, 32>>>>>>,
     <<2, 65536, <<"a", "s">>, <<0>>, <<<<116>>, <<242, 184>>, <<236, 119, 192>>>>>>,
     <<2, 65536, <<"a", "s">>, <<3>>, <<<<179>>, <<39, 9>>, <<136, 227, 153>>>>>>,
     <<2, 65536, <<"a", "s">>, <<4>>, <<<<179>>, <<2, 19>>, <<201, 3, 25>>>>>>,
     <<2, 65536, <<"a", "s">>, <<7>>, <<<<104>>, <<189, 114>>, <<248, 158, 148>>>>>>,
     <<2, 65536, <<"a", "s">>, <<63>>, <<<<76>>, <<215, 193>>, <<162, 188, 61>>>>>>,
     <<2, 65536, <<"a", "s">>, <<192>>, <<<<146>>, <<157, 90>>, <<253, 180, 153>>>>>>,
     <<2, 65536, <<"a", "s">>, <<252>>, <<<<140>>, <<21, 148>>, <<236, 142, 237>>>>>>,
     <<2, 65536, <<"a", "s">>, <<255>>, <<<<166>>, <<94, 6>>, <<90, 143, 248>>>>>>,
     <<2, 65536, <<"a", "s">>, <<0, 0>>, <<<<57>>, <<213, 213>>, <<104, 194, 32>>>>>>,
     <<2, 65536, <<"a", "s">>, <<0, 15>>, <<<<12>>, <<243, 250>>, <<199, 156, 83>>>>>>,
     <<2, 65536, <<"a", "s">>, <<0, 16>>, <<<<21>>, <<44, 240>>, <<204, 35, 27>>>>>>,
     <<2, 65536, <<"a", "s">>, <<0, 31>>, <<<<241>>, <<172, 214>>, <<104, 135, 89>>>>>>,
     <<2, 65536, <<"a", "s">>, <<0, 63>>, <<<<143>>, <<143, 232>>, <<20, 238, 20>>>>>>,
     <<2, 65536, <<"a", "s">>, <<0, 240>>, <<<<17>>, <<110, 118>>, <<246, 101, 52>>>>>>,
     <<2, 65536, <<"a", "s">>, <<0, 255>>, <<<<18>>, <<181, 214>>, <<221, 163, 100>>>>>>,
     <<2, 65536, <<"a", "s">>, <<3, 192>>, <<<<217>>, <<145, 56>>, <<73, 229, 84>>>>>>,
     <<2, 65536, <<"a", "s">>, <<3, 240>>, <<<<96>>, <<129, 112>>, <<195, 136, 118>>>>>>,
     <<2, 65536, <<"a", "s">>, <<3, 255>>, <<<<126>>, <<101, 11>>, <<184, 44, 119>>>>>>,
     <<2, 65536, <<"a", "s">>, <<4, 0>>, <<<<110>>, <<184, 212>>, <<151, 32, 160>>>>>>,
     <<2, 65536, <<"a", "s">>, <<4, 255>>, <<<<134>>, <<223, 59>>, <<58, 189, 195>>>>>>,
     <<2, 65536, <<"a", "s">>, <<7, 0>>, <<<<172>>, <<233, 120>>, <<38, 33, 251>>>>>>,
     <<2, 65536, <<"a", "s">>, <<7, 255>>, <<<<148>>, <<69, 212>>, <<168, 7, 139>>>>>>,
     <<2, 65536, <<"a", "s">>, <<63, 192>>, <<<<80>>, <<75, 172>>, <<130, 70, 57>>>>>>,
     <<2, 65536, <<"a", "s">>, <<63, 255>>, <<<<64>>, <<239, 221>>, <<102, 75, 144>>>>>>,
     <<2, 65536, <<"a", "s">>, <<192, 0>>, <<<<211>>, <<142, 199>>, <<78, 23, 250>>>>>>,
     <<2, 65536, <<"a", "s">>, <<192, 63>>, <<<<243>>, <<210, 152>>, <<16, 23, 121>>>>>>,
     <<2, 65536, <<"a", "s">>, <<252, 0>>, <<<<86>>, <<217, 45>>, <<23, 133, 91>>>>>>,
     <<2, 65536, <<"a", "s">>, <<252, 16>>, <<<<240>>, <<70, 114>>, <<26, 178, 64>>>>>>,
     <<2, 65536, <<"a", "s">>, <<252, 31>>, <<<<233>>, <<58, 195>>, <<140, 145, 51>>>>>>,
     <<2, 65536, <<"a", "s">>, <<252, 63>>, <<<<128>>, <<129, 96>>, <<176, 245, 95>>>>>>,
     <<2, 65536, <<"a", "s">>, <<252, 255>>, <<<<215>>, <<239, 103>>, <<23, 224, 250>>>>>>,
     <<2, 65536, <<"a", "s">>, <<255, 0>>, <<<<28>>, <<112, 71>>, <<83, 221, 233>>>>>>,
     <<2, 65536, <<"a", "s">>, <<255, 15>>, <<<<122>>, <<39, 249>>, <<192, 67, 181>>>>>>,
     <<2, 65536, <<"a", "s">>, <<255, 192>>, <<<<149>>, <<244, 204>>, <<183, 147, 57>>>>>>,
     <<2, 65536, <<"a", "s">>, <<255, 240>>, <<<<169>>, <<117, 111>>, <<89, 64, 155>>>>>>,
     <<2, 65536, <<"a", "s">>, <<255, 255>>, <<<<254>>, <<192, 115>>, <<155, 115, 71>>>>>>,
     <<2, 65536, <<"a", "s">>, <<0, 0, 0>>, <<<<161>>, <<231, 185>>, <<145, 141, 206>>>>>>,
     <<2, 65536, <<"a", "s">>, <<0, 0, 1>>, <<<<109>>, <<136, 165>>, <<174, 183, 240>>>>>>,
     <<2, 65536, <<"a", "s">>, <<0, 0, 63>>, <<<<237>>, <<178, 62>>, <<117, 135, 230>>>>>>,
     <<2, 65536, <<"a", "s">>, <<0, 0, 64>>, <<<<106>>, <<178, 12>>, <<102, 0, 124>>>>>>,
     <<2, 65536, <<"a", "s">>, <<0, 0, 127>>, <<<<208>>, <<156, 41>>, <<251, 32, 103>>>>>>,
     <<2, 65536, <<"a", "s">>, <<0, 0, 193>>, <<<<205>>, <<191, 165>>, <<227, 160, 145>>>>>>,
     <<2, 65536, <<"a", "s">>, <<0, 0, 255>>, <<<<201>>, <<139, 73>>, <<103, 10, 255>>>>>>,
     <<2, 65536, <<"a", "s">>, <<0, 15, 192>>, <<<<120>>, <<220, 122>>, <<179, 244, 80>>>>>>,
     <<2, 65536, <<"a", "s">>, <<0, 15, 255>>, <<<<195>>, <<73, 234>>, <<36, 104, 47>>>>>>,
     <<2, 65536, <<"a", "s">>, <<0, 16, 0>>, <<<<49>>, <<36, 248>>, <<22, 66, 232>>>>>>,
     <<2, 65536, <<"a", "s">>, <<0, 16, 255>>, <<<<247>>, <<68, 246>>, <<133, 132, 202>>>>>>,
     <<2, 65536, <<"a", "s">>, <<0, 31, 0>>, <<<<200>>, <<65, 56>>, <<3, 238, 10>>>>>>,
     <<2, 65536, <<"a", "s">>, <<0, 31, 255>>, <<<<116>>, <<147, 178>>, <<135, 10, 33>>>>>>,
     <<2, 65536, <<"a", "s">>, <<0, 240, 64>>, <<<<109>>, <<131, 180>>, <<13, 100, 206>>>>>>,
     <<2, 65536, <<"a", "s">>, <<0, 240, 127>>, <<<<73>>, <<68, 25>>, <<190, 243, 52>>>>>>,
     <<2, 65536, <<"a", "s">>, <<0, 255, 0>>, <<<<95>>, <<140, 201>>, <<145, 139, 132>>>>>>,
     <<2, 65536, <<"a", "s">>, <<0, 255, 1>>, <<<<0>>, <<160, 227>>, <<221, 210, 231>>>>>>,
     <<2, 65536, <<"a", "s">>, <<0, 255, 63>>, <<<<151>>, <<3, 222>>, <<144, 127, 39>>>>>>,
     <<2, 65536, <<"a", "s">>, <<0, 255, 192>>, <<<<197>>, <<132, 37>>, <<81, 165, 139>>>>>>,
     <<2, 65536, <<"a", "s">>, <<0, 255, 193>>, <<<<197>>, <<175, 112>>, <<242, 128, 213>>>>>>,
     <<2, 65536, <<"a", "s">>, <<0, 255, 255>>, <<<<29>>, <<59, 220>>, <<110, 59, 179>>>>>>,
     <<2, 65536, <<"a", "s">>, <<3, 240, 0>>, <<<<130>>, <<3, 80>>, <<127, 120, 0>>>>>>,
     <<2, 65536, <<"a", "s">>, <<3, 240, 255>>, <<<<37>>, <<167, 54>>, <<136, 19, 135>>>>>>,
     <<2, 65536, <<"a", "s">>, <<3, 255, 0>>, <<<<48>>, <<179, 215>>, <<182, 35, 93>>>>>>,
     <<2, 65536, <<"a", "s">>, <<3, 255, 255>>, <<<<93>>, <<51, 25>>, <<223, 71, 31>>>>>>,
     <<2, 65536, <<"a", "s">>, <<4, 0, 0>>, <<<<0>>, <<152, 233>>, <<28, 171, 114>>>>>>,
     <<2, 65536, <<"a", "s">>, <<4, 0, 255>>, <<<<111>>, <<64, 66>>, <<142, 57, 57>>>>>>,
     <<2, 65536, <<"a", "s">>, <<4, 255, 0>>, <<<<20>>, <<204, 232>>, <<113, 226, 27>>>>>>,
     <<2, 65536, <<"a", "s">>, <<4, 255, 255>>, <<<<177>>, <<68, 254>>, <<221, 99, 33>>>>>>,
     <<2, 65536, <<"a", "s">>, <<7, 0, 0>>, <<<<238>>, <<177, 40>>, <<142, 247, 240>>>>>>,
     <<2, 65536, <<"a", "s">>, <<7, 0, 255>>, <<<<201>>, <<106, 207>>, <<141, 73, 32>>>>>>,
     <<2, 65536, <<"a", "s">>, <<7, 255, 0>>, <<<<86>>, <<171, 227>>, <<121, 3, 45>>>>>>,
     <<2, 65536, <<"a", "s">>, <<7, 255, 255>>, <<<<37>>, <<238, 192>>, <<223, 163, 131>>>>>>,
     <<2, 65536, <<"a", "s">>, <<252, 0, 0>>, <<<<144>>, <<222, 5>>, <<30, 123, 3>>>>>>,
     <<2, 65536, <<"a", "s">>, <<252, 0, 255>>, <<<<89>>, <<252, 27>>, <<129, 202, 224>>>>>>,
     <<2, 65536, <<"a", "s">>, <<252, 16, 0>>, <<<<208>>, <<55, 228>>, <<71, 240, 80>>>>>>,
     <<2, 65536, <<"a", "s">>, <<252, 16, 255>>, <<<<18>>, <<244, 83>>, <<187, 46, 115>>>>>>,
     <<2, 65536, <<"a", "s">>, <<252, 31, 0>>, <<<<55>>, <<41, 22>>, <<85, 207, 246>>>>>>,
     <<2, 65536, <<"a", "s">>, <<252, 31, 255>>, <<<<144>>, <<183, 43>>, <<51, 130, 72>>>>>>,
     <<2, 65536, <<"a", "s">>, <<252, 255, 0>>, <<<<74>>, <<32, 93>>, <<89, 221, 3>>>>>>,
     <<2, 65536, <<"a", "s">>, <<252, 255, 255>>, <<<<248>>, <<190, 7>>, <<214, 36, 203>>>>>>,
     <<2, 65536, <<"a", "s">>, <<255, 0, 0>>, <<<<119>>, <<164, 125>>, <<17, 124, 185>>>>>>,
     <<2, 65536, <<"a", "s">>, <<255, 0, 1>>, <<<<10>>, <<209, 87>>, <<1, 65, 244>>>>>>,
     <<2, 65536, <<"a", "s">>, <<255, 0, 63>>, <<<<22>>, <<81, 127>>, <<18, 18, 210>>>>>>,
     <<2, 65536, <<"a", "s">>, <<255, 0, 64>>, <<<<226>>, <<133, 193>>, <<164, 49, 198>>>>>>,
     <<2, 65536, <<"a", "s">>, <<255, 0, 127>>, <<<<217>>, <<209, 230>>, <<98, 222, 243>>>>>>,
     <<2, 65536, <<"a", "s">>, <<255, 0, 193>>, <<<<192>>, <<180, 129>>, <<92, 128, 0>>>>>>,
     <<2, 65536, <<"a", "s">>, <<255, 0, 255>>, <<<<140>>, <<137, 246>>, <<103, 37, 23>>>>>>,
     <<2, 65536, <<"a", "s">>, <<255, 15, 192>>, <<<<119>>, <<217, 158>>, <<78, 89, 109>>>>>>,
     <<2, 65536, <<"a", "s">>, <<255, 15, 255>>, <<<<11>>, <<15, 52>>, <<91, 75, 38>>>>>>,
     <<2, 65536, <<"a", "s">>, <<255, 240, 0>>, <<<<210>>, <<9, 132>>, <<181, 159, 196>>>>>>,
     <<2, 65536, <<"a", "s">>, <<255, 240, 64>>, <<<<156>>, <<193, 207>>, <<129, 106, 202>>>>>>,
     <<2, 65536, <<"a", "s">>, <<255, 240, 127>>, <<<<179>>, <<221, 231>>, <<227, 63, 234>>>>>>,
     <<2, 65536, <<"a", "s">>, <<255, 240, 255>>, <<<<5>>, <<103, 251>>, <<151, 54, 4>>>>>>,
     <<2, 65536, <<"a", "s">>, <<255, 255, 0>>, <<<<169>>, <<60, 131>>, <<219, 134, 152>>>>>>,
     <<2, 65536, <<"a", "s">>, <<255, 255, 1>>, <<<<89>>, <<37, 49>>, <<175, 96, 3>>>>>>,
     <<2, 65536, <<"a", "s">>, <<255, 255, 63>>, <<<<194>>, <<174, 129>>, <<23, 103, 56>>>>>>,
     <<2, 65536, <<"a", "s">>, <<255, 255, 192>>, <<<<219>>, <<170, 161>>, <<180, 232, 241>>>>>>,
     <<2, 65536, <<"a", "s">>, <<255, 255, 193>>, <<<<165>>, <<182, 59>>, <<27, 221, 106>>>>>>,
     <<2, 65536, <<"a", "s">>, <<255, 255, 255>>, <<<<157>>, <<197, 184>>, <<216, 187, 73>>>>>>,
     <<2, 65536, <<"p", "w">>, <<0>>, <<<<116>>, <<217, 196>>, <<80, 93, 144>>>>>>,
     <<2, 65536, <<"p", "w">>, <<3>>, <<<<116>>, <<110, 34>>, <<250, 232, 220>>>>>>,
     <<2, 65536, <<"p", "w">>, <<4>>, <<<<32>>, <<105, 102>>, <<63, 205, 47>>>>>>,
     <<2, 65536, <<"p", "w">>, <<7>>, <<<<148>>, <<109, 148>>, <<165, 177, 26>>>>>>,
     <<2, 65536, <<"p", "w">>, <<63>>, <<<<26>>, <<117, 245>>, <<128, 243, 121>>>>>>,
     <<2, 65536, <<"p", "w">>, <<192>>, <<<<178>>, <<11, 103>>, <<73, 129, 156>>>>>>,
     <<2, 65536, <<"p", "w">>, <<252>>, <<<<163>>, <<100, 197>>, <<27, 191, 129>>>>>>,
     <<2, 65536, <<"p", "w">>, <<255>>, <<<<67>>, <<150, 245>>, <<27, 56, 164>>>>>>,
     <<2, 65536, <<"p", "w">>, <<0, 0>>, <<<<250>>, <<85, 176>>, <<103, 117, 90>>>>>>,
     <<2, 65536, <<"p", "w">>, <<0, 15>>, <<<<192>>, <<99, 85>>, <<82, 187, 68>>>>>>,
     <<2, 65536, <<"p", "w">>, <<0, 16>>, <<<<245>>, <<191, 191>>, <<22, 52, 84>>>>>>,
     <<2, 65536, <<"p", "w">>, <<0, 31>>, <<<<174>>, <<136, 127>>, <<150, 8, 30>>>>>>,
     <<2, 65536, <<"p", "w">>, <<0, 63>>, <<<<135>>, <<31, 250>>, <<155, 249, 164>>>>>>,
     <<2, 65536, <<"p", "w">>, <<0, 240>>, <<<<242>>, <<5, 50>>, <<174, 122, 33>>>>>>,
     <<2, 65536, <<"p", "w">>, <<0, 255>>, <<<<81>>, <<95, 83>>, <<229, 36, 194>>>>>>,
     <<2, 65536, <<"p", "w">>, <<3, 192>>, <<<<9>>, <<10, 51>>, <<208, 167, 62>>>>>>,
     <<2, 65536, <<"p", "w">>, <<3, 240>>, <<<<114>>, <<91, 208>>, <<180, 64, 185>>>>>>,
     <<2, 65536, <<"p", "w">>, <<3, 255>>, <<<<246>>, <<189, 134>>, <<185, 107, 240>>>>>>,
     <<2, 65536, <<"p", "w">>, <<4, 0>>, <<<<103>>, <<228, 206>>, <<232, 228, 99>>>>>>,
     <<2, 65536, <<"p", "w">>, <<4, 255>>, <<<<117>>, <<185, 135>>, <<70, 224, 251>>>>>>,
     <<2, 65536, <<"p", "w">>, <<7, 0>>, <<<<157>>, <<32, 116>>, <<231, 154, 138>>>>>>,
     <<2, 65536, <<"p", "w">>, <<7, 255>>, <<<<200>>, <<132, 105>>, <<177, 37, 31>>>>>>,
     <<2, 65536, <<"p", "w">>, <<63, 192>>, <<<<32>>, <<171, 18>>, <<143, 126, 182>>>>>>,
     <<2, 65536, <<"p", "w">>, <<63, 255>>, <<<<146>>, <<223, 252>>, <<37, 83, 223>>>>>>,
     <<2, 65536, <<"p", "w">>, <<192, 0>>, <<<<139>>, <<18, 233>>, <<26, 155, 232>>>>>>,
     <<2, 65536, <<"p", "w">>, <<192, 63>>, <<<<229>>, <<4, 144>>, <<205, 106, 228>>>>>>,
     <<2, 65536, <<"p", "w">>, <<252, 0>>, <<<<237>>, <<219, 122>>, <<138, 131, 136>>>>>>,
     <<2, 65536, <<"p", "w">>, <<252, 16>>, <<<<247>>, <<134, 157>>, <<170, 40, 52>>>>>>,
     <<2, 65536, <<"p", "w">>, <<252, 31>>, <<<<233>>, <<36, 71>>, <<253, 1, 87>>>>>>,
     <<2, 65536, <<"p", "w">>, <<252, 63>>, <<<<92>>, <<7, 245>>, <<85, 93, 63>>>>>>,
     <<2, 65536, <<"p", "w">>, <<252, 255>>, <<<<232>>, <<157, 230>>, <<59, 184, 181>>>>>>,
     <<2, 65536, <<"p", "w">>, <<255, 0>>, <<<<237>>, <<170, 94>>, <<147, 110, 8>>>>>>,
     <<2, 65536, <<"p", "w">>, <<255, 15>>, <<<<189>>, <<143, 46>>, <<238, 154, 155>>>>>>,
     <<2, 65536, <<"p", "w">>, <<255, 192>>, <<<<27>>, <<162, 54>>, <<49, 185, 46>>>>>>,
     <<2, 65536, <<"p", "w">>, <<255, 240>>, <<<<122>>, <<177, 143>>, <<204, 237, 178>>>>>>,
     <<2, 65536, <<"p", "w">>, <<255, 255>>, <<<<206>>, <<2, 200>>, <<63, 251, 48>>>>>>,
     <<2, 65536, <<"p", "w">>, <<0, 0, 0>>, <<<<232>>, <<160, 59>>, <<126, 115, 136>>>>>>,
     <<2, 65536, <<"p", "w">>, <<0, 0, 1>>, <<<<188>>, <<240, 122>>, <<209, 205, 137>>>>>>,
     <<2, 65536, <<"p", "w">>, <<0, 0, 63>>, <<<<98>>, <<120, 217>>, <<136, 35, 215>>>>>>,
     <<2, 65536, <<"p", "w">>, <<0, 0, 64>>, <<<<114>>, <<163, 5>>, <<164, 204, 204>>>>>>,
     <<2, 65536, <<"p", "w">>, <<0, 0, 127>>, <<<<136>>, <<223, 39>>, <<45, 98, 153>>>>>>,
     <<2, 65536, <<"p", "w">>, <<0, 0, 193>>, <<<<154>>, <<246, 81>>, <<202, 162, 135>>>>>>,
     <<2, 65536, <<"p", "w">>, <<0, 0, 255>>, <<<<2>>, <<105, 181>>, <<242, 158, 121>>>>>>,
     <<2, 65536, <<"p", "w">>, <<0, 15, 192>>, <<<<86>>, <<86, 30>>, <<115, 76, 231>>>>>>,
     <<2, 65536, <<"p", "w">>, <<0, 15, 255>>, <<<<64>>, <<198, 97>>, <<73, 134, 95>>>>>>,
     <<2, 65536, <<"p", "w">>, <<0, 16, 0>>, <<<<176>>, <<129, 68>>, <<16, 117, 97>>>>>>,
     <<2, 65536, <<"p", "w">>, <<0, 16, 255>>, <<<<83>>, <<73, 195>>, <<200, 28, 167>>>>>>,
     <<2, 65536, <<"p", "w">>, <<0, 31, 0>>, <<<<175>>, <<207, 98>>, <<101, 158, 121>>>>>>,
     <<2, 65536, <<"p", "w">>, <<0, 31, 255>>, <<<<216>>, <<150, 170>>, <<212, 122, 49>>>>>>,
     <<2, 65536, <<"p", "w">>, <<0, 240, 64>>, <<<<23>>, <<130, 44>>, <<35, 84, 239>>>>>>,
     <<2, 65536, <<"p", "w">>, <<0, 240, 127>>, <<<<174>>, <<237, 52>>, <<116, 203, 42>>>>>>,
     <<2, 65536, <<"p", "w">>, <<0, 255, 0>>, <<<<104>>, <<235, 117>>, <<13, 104, 176>>>>>>,
     <<2, 65536, <<"p", "w">>, <<0, 255, 1>>, <<<<69>>, <<207, 188>>, <<182, 210, 167>>>>>>,
     <<2, 65536, <<"p", "w">>, <<0, 255, 63>>, <<<<173>>, <<94, 127>>, <<60, 98, 25>>>>>>,
     <<2, 65536, <<"p", "w">>, <<0, 255, 192>>, <<<<214>>, <<95, 15>>, <<166, 243, 214>>>>>>,
     <<2, 65536, <<"p", "w">>, <<0, 255, 193>>, <<<<49>>, <<2, 135>>, <<185, 67, 117>>>>>>,
     <<2, 65536, <<"p", "w">>, <<0, 255, 255>>, <<<<195>>, <<0, 36>>, <<194, 171, 45>>>>>>,
     <<2, 65536, <<"p", "w">>, <<3, 240, 0>>, <<<<215>>, <<210, 220>>, <<73, 191, 87>>>>>>,
     <<2, 65536, <<"p", "w">>, <<3, 240, 255>>, <<<<196>>, <<84, 160>>, <<190, 80, 154>>>>>>,
     <<2, 65536, <<"p", "w">>, <<3, 255, 0>>, <<<<50>>, <<159, 161>>, <<203, 83, 128>>>>>>,
     <<2, 65536, <<"p", "w">>, <<3, 255, 255>>, <<<<215>>, <<58, 8>>, <<146, 55, 171>>>>>>,
     <<2, 65536, <<"p", "w">>, <<4, 0, 0>>, <<<<98>>, <<147, 18>>, <<51, 154, 208>>>>>>,
     <<2, 65536, <<"p", "w">>, <<4, 0, 255>>, <<<<110>>, <<181, 128>>, <<73, 0, 129>>>>>>,
     <<2, 65536, <<"p", "w">>, <<4, 255, 0>>, <<<<49>>, <<67, 114>>, <<255, 117, 112>>>>>>,
     <<2, 65536, <<"p", "w">>, <<4, 255, 255>>, <<<<22>>, <<113, 220>>, <<98, 57, 62>>>>>>,
     <<2, 65536, <<"p", "w">>, <<7, 0, 0>>, <<<<153>>, <<72, 112>>, <<66, 23, 216>>>>>>,
     <<2, 65536, <<"p", "w">>, <<7, 0, 255>>, <<<<45>>, <<14, 226>>, <<196, 85, 177>>>>>>,
     <<2, 65536, <<"p", "w">>, <<7, 255, 0>>, <<<<231>>, <<3, 143>>, <<25, 134, 54>>>>>>,
     <<2, 65536, <<"p", "w">>, <<7, 255, 255>>, <<<<93>>, <<163, 120>>, <<90, 4, 61>>>>>>,
     <<2, 65536, <<"p", "w">>, <<252, 0, 0>>, <<<<51>>, <<175, 252>>, <<220, 92, 45>>>>>>,
     <<2, 65536, <<"p", "w">>, <<252, 0, 255>>, <<<<153>>, <<97, 237>>, <<142, 114, 10>>>>>>,
     <<2, 65536, <<"p", "w">>, <<252, 16, 0>>, <<<<59>>, <<47, 167>>, <<23, 153, 244>>>>>>,
     <<2, 65536, <<"p", "w">>, <<252, 16, 255>>, <<<<98>>, <<239, 20>>, <<187, 198, 86>>>>>>,
     <<2, 65536, <<"p", "w">>, <<252, 31, 0>>, <<<<127>>, <<49, 113>>, <<192, 3, 170>>>>>>,
     <<2, 65536, <<"p", "w">>, <<252, 31, 255>>, <<<<39>>, <<43, 112>>, <<26, 86, 224>>>>>>,
     <<2, 65536, <<"p", "w">>, <<252, 255, 0>>, <<<<174>>, <<194, 13>>, <<133, 58, 247>>>>>>,
     <<2, 65536, <<"p", "w">>, <<252, 255, 255>>, <<<<17>>, <<58, 62>>, <<227, 14, 66>>>>>>,
     <<2, 65536, <<"p", "w">>, <<255, 0, 0>>, <<<<235>>, <<92, 126>>, <<219, 95, 76>>>>>>,
     <<2, 65536, <<"p", "w">>, <<255, 0, 1>>, <<<<169>>, <<6, 37>>, <<171, 230, 136>>>>>>,
     <<2, 65536, <<"p", "w">>, <<255, 0, 63>>, <<<<137>>, <<183, 238>>, <<220, 84, 154>>>>>>,
     <<2, 65536, <<"p", "w">>, <<255, 0, 64>>, <<<<27>>, <<238, 213>>, <<128, 80, 129>>>>>>,
     <<2, 65536, <<"p", "w">>, <<255, 0, 127>>, <<<<186>>, <<208, 161>>, <<101, 57, 98>>>>>>,
     <<2, 65536, <<"p", "w">>, <<255, 0, 193>>, <<<<48>>, <<160, 66>>, <<177, 2, 22>>>>>>,
     <<2, 65536, <<"p", "w">>, <<255, 0, 255>>, <<<<242>>, <<19, 122>>, <<112, 82, 238>>>>>>,
     <<2, 65536, <<"p", "w">>, <<255, 15, 192>>, <<<<114>>, <<8, 133>>, <<42, 141, 254>>>>>>,
     <<2, 65536, <<"p", "w">>, <<255, 15, 255>>, <<<<197>>, <<109, 2>>, <<93, 251, 146>>>>>>,
     <<2, 65536, <<"p", "w">>, <<255, 240, 0>>, <<<<3>>, <<18, 44>>, <<16, 82, 234>>>>>>,
     <<2, 65536, <<"p", "w">>, <<255, 240, 64>>, <<<<229>>, <<32, 42>>, <<248, 226, 234>>>>>>,
     <<2, 65536, <<"p", "w">>, <<255, 240, 127>>, <<<<34>>, <<11, 117>>, <<106, 197, 247>>>>>>,
     <<2, 65536, <<"p", "w">>, <<255, 240, 255>>, <<<<218>>, <<205, 12>>, <<155, 94, 39>>>>>>,
     <<2, 65536, <<"p", "w">>, <<255, 255, 0>>, <<<<113>>, <<70, 137>>, <<13, 205, 216>>>>>>,
     <<2, 65536, <<"p", "w">>, <<255, 255, 1>>, <<<<109>>, <<209, 182>>, <<59, 148, 245>>>>>>,
     <<2, 65536, <<"p", "w">>, <<255, 255, 63>>, <<<<91>>, <<190, 182>>, <<45, 62, 116>>>>>>,
     <<2, 65536, <<"p", "w">>, <<255, 255, 192>>, <<<<60>>, <<25, 227>>, <<72, 201, 129>>>>>>,
     <<2, 65536, <<"p", "w">>, <<255, 255, 193>>, <<<<121>>, <<156, 72>>, <<213, 161, 49>>>>>>,
     <<2, 65536, <<"p", "w">>, <<255, 255, 255>>, <<<<90>>, <<118, 91>>, <<101, 13, 78>>>>>>,
     <<2, 8, <<"P", "w">>, <<0, 0>>, <<<<168>>, <<109, 80>>, <<213, 168, 230>>>>>>,
     <<2, 8, <<"a", "s">>, <<0, 0>>, <<<<55>>, <<156, 6>>, <<98, 147, 24>>>>>>,
     <<2, 8, <<"p", "w">>, <<0, 0>>, <<<<163>>, <<138, 197>>, <<118, 252, 84>>>>>>}

\* the rows of the argument list a
KDFRows(a) ==
    {r \in Argon2Keys :
        /\ r[1] = a.form /\ U32(r[2]) = a.memory /\ r[3] = a.password /\ r[4] = a.salt
        /\ a.time = U32(3) /\ a.threads = 2 /\ a.keyLen \in 1..3}

KDFKnown(a) == KDFRows(a) # {}

\* the key of the argument list a
KDF(a) == (CHOOSE r \in KDFRows(a) : TRUE)[5][a.keyLen]

(***************************************************************************)
(* Hasher.hashCreate                                                       *)
(***************************************************************************)
\* fmt.Sprintf("$%s$v=%d$m=%d,t=%d,p=%d$%s$%s", ...)
FormatHash(form, version, memory, iterations, parallelism, b64Salt, b64Key) ==
    <<"$">> \o form \o <<"$", "v", "=">> \o FormatU32(U32(version))
    \o <<"$", "m", "=">> \o FormatU32(memory)
    \o <<",", "t", "=">> \o FormatU32(iterations)
    \o <<",", "p", "=">> \o FormatU32(U32(parallelism))
    \o <<"$">> \o b64Salt \o <<"$">> \o b64Key

\* rng is what rand.Read does when asked: [err |-> TRUE] or the salt bytes
\* it fills in.  The result also records whether rand.Read was called and
\* whether the key derivation was called.
hashCreate(h, password, rng) ==
    IF ~isValid(h)
    THEN [hash |-> <<>>, err |-> "ErrInvalidHasherConfiguration",
          rng |-> FALSE, kdf |-> FALSE]
    ELSE IF rng.err
    THEN [hash |-> <<>>, err |-> "RNGError", rng |-> TRUE, kdf |-> FALSE]
    ELSE IF h.Form \notin {FormI, FormID}
    THEN [hash |-> <<>>, err |-> "ErrInvalidForm", rng |-> TRUE, kdf |-> FALSE]
    ELSE Let(KDFArgs(h.Form, password, rng.salt, h.Iterations, h.Memory,
                     h.Parallelism, U32ToNat(h.KeyLength)), LAMBDA a :
         IF ~KDFKnown(a)
         THEN [hash |-> <<>>, err |-> "Unmodelled", rng |-> TRUE, kdf |-> TRUE] ELSE
         Let(KDF(a), LAMBDA key :
             [hash |-> FormatHash(IF h.Form = FormI THEN Str_argon2i ELSE Str_argon2id,
                                  Version, h.Memory, h.Iterations, h.Parallelism,
                                  EncodeToString(rng.salt), EncodeToString(key)),
              err |-> "nil", rng |-> TRUE, kdf |-> TRUE]))

(***************************************************************************)
(* hashCompare                                                             *)
(***************************************************************************)
\* a scan of the version field that takes any field for the supported version
ScanVersionSupported(seg) == [err |-> "nil", val |-> IntOf(Version)]

\* fmt.Sscanf(hashValues[2], "v=%d", &hashVersion), hashVersion an int
ScanVersion(seg) ==
    Let(MatchLiteral(seg, <<"v", "=">>), LAMBDA lit :
        IF lit.err # "nil" THEN [err |-> lit.err, val |-> IntOf(0)]
        ELSE Let(ScanInt(lit.rest), LAMBDA n : [err |-> n.err, val |-> n.val]))

\* fmt.Sscanf(hashValues[3], "m=%d,t=%d,p=%d", &m, &t, &p) with m and t
\* uint32 and p uint8
ScanParams(seg) ==
    LET fail(e) == [err |-> e, m |-> U32Zero, t |-> U32Zero, p |-> 0]
    IN  Let(ScanKeyUint(seg, "m", MaxUint32Digits), LAMBDA m :
        IF m.err # "nil" THEN fail(m.err) ELSE
        Let(MatchLiteral(m.rest, <<",">>), LAMBDA c1 :
        IF c1.err # "nil" THEN fail(c1.err) ELSE
        Let(ScanKeyUint(c1.rest, "t", MaxUint32Digits), LAMBDA t :
        IF t.err # "nil" THEN fail(t.err) ELSE
        Let(MatchLiteral(t.rest, <<",">>), LAMBDA c2 :
        IF c2.err # "nil" THEN fail(c2.err) ELSE
        Let(ScanKeyUint(c2.rest, "p", MaxUint8Digits), LAMBDA p :
        IF p.err # "nil" THEN fail(p.err) ELSE
        [err |-> "nil", m |-> m.val, t |-> t.val, p |-> p.val[2]])))))

\* a comparison of the lengths only
KeysSameLength(hashKey, passwordKey) == Len(hashKey) = Len(passwordKey)

\* subtle.ConstantTimeEq on the lengths, then subtle.ConstantTimeCompare
KeysEqual(hashKey, passwordKey) ==
    /\ Len(hashKey) = Len(passwordKey)
    /\ \A i \in 1..Len(hashKey) : hashKey[i] = passwordKey[i]

\* the result records the boolean, the error ("nil" when none; "PANIC"
\* when the key derivation aborts instead of returning), whether the key
\* derivation was called, and the version an ErrIncompatibleVersion carries
hashCompare(password, text) ==
    LET ret(ok, e, k) == [ok |-> ok, err |-> e, kdf |-> k, version |-> IntOf(0)]
    IN  Let(Split(text, "$"), LAMBDA hashValues :
        IF Len(hashValues) # 6 THEN ret(FALSE, "ErrInvalidHash", FALSE) ELSE
        IF hashValues[2] \notin {Str_argon2i, Str_argon2id}
        THEN ret(FALSE, "ErrInvalidForm", FALSE) ELSE
        Let(ScanVersion(hashValues[3]), LAMBDA v :
        IF v.err # "nil" THEN ret(FALSE, v.err, FALSE) ELSE
        IF v.val # IntOf(Version)
        THEN [ok |-> FALSE, err |-> "ErrIncompatibleVersion", kdf |-> FALSE,
              version |-> v.val] ELSE
        Let(ScanParams(hashValues[4]), LAMBDA prm :
        IF prm.err # "nil" THEN ret(FALSE, prm.err, FALSE) ELSE
        Let(DecodeString(hashValues[5]), LAMBDA hashSalt :
        IF hashSalt.err # "nil" THEN ret(FALSE, hashSalt.err, FALSE) ELSE
        Let(DecodeString(hashValues[6]), LAMBDA hashKey :
        IF hashKey.err # "nil" THEN ret(FALSE, hashKey.err, FALSE) ELSE
        IF KDFAborts(prm.t, prm.p, Len(hashKey.val))
        THEN ret(FALSE, "PANIC", TRUE) ELSE
        Let(KDFArgs(IF hashValues[2] = Str_argon2i THEN FormI ELSE FormID,
                    password, hashSalt.val, prm.t, prm.m, prm.p, Len(hashKey.val)),
            LAMBDA a :
        IF ~KDFKnown(a) THEN ret(FALSE, "Unmodelled", TRUE) ELSE
        Let(KDF(a), LAMBDA passwordKey :
            ret(KeysEqual(hashKey.val, passwordKey), "nil", TRUE))))))))

(***************************************************************************)
(* go/scanner and go/parser, as parser.ParseExpr uses them on an ASCII     *)
(* text.  A token is its kind and its literal text.  Any error of the      *)
(* scanner or the parser makes ParseExpr return an error, so the model     *)
(* stops at the first one.  The scanner is modelled but for interpreted    *)
(* string literals and character literals; the parser for literals,        *)
(* identifiers, selectors, type assertions, calls of at most one argument, *)
(* parentheses and the unary and binary operators.  A text whose parse     *)
(* comes, without an error before, to a token of the syntax that is left   *)
(* out (LeftOut) has the outcome "Unmodelled", which stands for whatever   *)
(* the parser does there.                                                  *)
(***************************************************************************)
Letters ==
    {"a", "b", "c", "d", "e", "f", "g", "h", "i", "j", "k", "l", "m", "n",
     "o", "p", "q", "r", "s", "t", "u", "v", "w", "x", "y", "z", "A", "B",
     "C", "D", "E", "F", "G", "H", "I", "J", "K", "L", "M", "N", "O", "P",
     "Q", "R", "S", "T", "U", "V", "W", "X", "Y", "Z", "_"}

HexDigits ==
    DigitSet \cup {"a", "b", "c", "d", "e", "f", "A", "B", "C", "D", "E", "F"}

\* the back quote: no string of this notation can hold the character, so
\* this string stands for it in a text
BackQuote == "BACKQUOTE"

\* the characters that open a string or a character literal
QuoteChars == {"\"", "'", BackQuote}

\* token.Lookup: the keywords of Go
Keywords ==
    {<<"b", "r", "e", "a", "k">>,
     <<"c", "a", "s", "e">>,
     <<"c", "h", "a", "n">>,
     <<"c", "o", "n", "s", "t">>,
     <<"c", "o", "n", "t", "i", "n", "u", "e">>,
     <<"d", "e", "f", "a", "u", "l", "t">>,
     <<"d", "e", "f", "e", "r">>,
     <<"e", "l", "s", "e">>,
     <<"f", "a", "l", "l", "t", "h", "r", "o", "u", "g", "h">>,
     <<"f", "o", "r">>,
     <<"f", "u", "n", "c">>,
     <<"g", "o">>,
     <<"g", "o", "t", "o">>,
     <<"i", "f">>,
     <<"i", "m", "p", "o", "r", "t">>,
     <<"i", "n", "t", "e", "r", "f", "a", "c", "e">>,
     <<"m", "a", "p">>,
     <<"p", "a", "c", "k", "a", "g", "e">>,
     <<"r", "a", "n", "g", "e">>,
     <<"r", "e", "t", "u", "r", "n">>,
     <<"s", "e", "l", "e", "c", "t">>,
     <<"s", "t", "r", "u", "c", "t">>,
     <<"s", "w", "i", "t", "c", "h">>,
     <<"t", "y", "p", "e">>,
     <<"v", "a", "r">>}

\* the keywords that begin a type or a function literal, which the model
\* leaves out
TypeKeywords ==
    {<<"f", "u", "n", "c">>, <<"c", "h", "a", "n">>, <<"m", "a", "p">>,
     <<"s", "t", "r", "u", "c", "t">>,
     <<"i", "n", "t", "e", "r", "f", "a", "c", "e">>}

Kw_type == <<"t", "y", "p", "e">>

\* the keywords after which a line end makes a semicolon
SemiKeywords ==
    {<<"b", "r", "e", "a", "k">>, <<"c", "o", "n", "t", "i", "n", "u", "e">>,
     <<"f", "a", "l", "l", "t", "h", "r", "o", "u", "g", "h">>,
     <<"r", "e", "t", "u", "r", "n">>}

Tok(k, v) == [k |-> k, v |-> v]

CharAt(s, i) == IF i >= 1 /\ i <= Len(s) THEN s[i] ELSE "EOF"

\* scanner.invalidSep: is some '_' of the literal not between two digits
\* (the base prefix counts as a digit; the letters a-f are digits of a
\* hexadecimal literal)
invalidSep(lit) ==
    LET hex == Len(lit) >= 2 /\ lit[1] = "0" /\ lit[2] \in {"x", "X"}
        pre == Len(lit) >= 2 /\ lit[1] = "0" /\ lit[2] \in {"x", "X", "o", "O", "b", "B"}
        dig(c) == IsDigit(c) \/ (hex /\ c \in HexDigits)
    IN  \E k \in 1..Len(lit) :
            /\ lit[k] = "_"
            /\ \/ ~(k > 1 /\ (dig(lit[k - 1]) \/ (pre /\ k = 3)))
               \/ ~(k < Len(lit) /\ dig(lit[k + 1]))

\* scanner.scanNumber from position i, at a digit or at a '.' before a
\* digit: the base prefix (0x, 0o, 0b, or a leading 0 for legacy octal),
\* the digits and '_' of the integer part, a '.' and the fractional part,
\* an exponent (e or p, a sign, decimal digits) and the suffix i.  The
\* token is an INT, a FLOAT or an IMAG; it is an "ERROR" when the scanner
\* reports an error on the literal.
ScanNumber(s, i) ==
    LET p1     == CharAt(s, i + 1)
        prefix == IF s[i] # "0" THEN "d"
                  ELSE IF p1 \in {"x", "X"} THEN "x"
                  ELSE IF p1 \in {"o", "O"} THEN "o"
                  ELSE IF p1 \in {"b", "B"} THEN "b"
                  ELSE "0"
        digs   == (IF prefix = "x" THEN HexDigits ELSE DigitSet) \cup {"_"}
        a      == IF prefix \in {"x", "o", "b"} THEN i + 2
                  ELSE IF prefix = "0" THEN i + 1 ELSE i
        n1     == IF s[i] = "." THEN 0 ELSE PrefixLen(Drop(s, a - 1), digs)
        b      == a + n1
        dot    == CharAt(s, b) = "."
        n2     == IF dot THEN PrefixLen(Drop(s, b), digs) ELSE 0
        c      == IF dot THEN b + 1 + n2 ELSE b
        nodig  == prefix # "0" /\ \A k \in a..(c - 1) : s[k] \in {"_", "."}
        isE    == CharAt(s, c) \in {"e", "E"}
        isP    == CharAt(s, c) \in {"p", "P"}
        expo   == isE \/ isP
        sgn    == IF expo /\ CharAt(s, c + 1) \in {"+", "-"} THEN 1 ELSE 0
        n3     == IF expo THEN PrefixLen(Drop(s, c + sgn), DigitSet \cup {"_"}) ELSE 0
        d      == IF expo THEN c + 1 + sgn + n3 ELSE c
        noexp  == \A k \in (c + 1 + sgn)..(d - 1) : s[k] = "_"
        imag   == CharAt(s, d) = "i"
        lit    == SubSeq(s, i, IF imag THEN d ELSE d - 1)
        kind   == IF imag THEN "IMAG" ELSE IF dot \/ expo THEN "FLOAT" ELSE "INT"
        max    == IF prefix \in {"0", "o"} THEN 8 ELSE IF prefix = "b" THEN 2 ELSE 10
        bad    == \E k \in a..(b - 1) : IsDigit(s[k]) /\ DigitVal(s[k]) >= max
        err    == \/ dot /\ prefix \in {"o", "b"}
                  \/ nodig
                  \/ isE /\ prefix \notin {"d", "0"}
                  \/ isP /\ prefix # "x"
                  \/ expo /\ noexp
                  \/ ~expo /\ prefix = "x" /\ dot
                  \/ kind = "INT" /\ bad
                  \/ invalidSep(lit)
    IN  Tok(IF err THEN "ERROR" ELSE kind, lit)

\* scanner.findLineEnd at the '/' at position i that opens a comment: does
\* a line end before the next token.  A line comment holds one; a general
\* comment holds one when a line feed comes before its end, and is else
\* followed by the end of the text, a line feed, another comment or a token
RECURSIVE findLineEnd(_, _)
findLineEnd(s, i) ==
    LET closes == {j \in (i + 2)..(Len(s) - 1) : s[j] = "*" /\ s[j + 1] = "/"}
        feeds  == {j \in (i + 2)..Len(s) : s[j] = "\n"}
        close  == CHOOSE j \in closes : \A k \in closes : j <= k
        after  == close + 2 + PrefixLen(Drop(s, close + 1), {" ", "\t", "\r"})
    IN  IF CharAt(s, i + 1) = "/" THEN TRUE
        ELSE IF closes = {} THEN TRUE
        ELSE IF \E j \in feeds : j < close THEN TRUE
        ELSE IF CharAt(s, after) \in {"EOF", "\n"} THEN TRUE
        ELSE IF CharAt(s, after) = "/" /\ CharAt(s, after + 1) \in {"/", "*"}
        THEN findLineEnd(s, after)
        ELSE FALSE

\* scanner.Scan at position i0, semi telling whether a line end now makes
\* a semicolon (insertSemi): the white space is skipped, then comes the
\* token (its kind and its literal text), the position after it and the
\* new insertSemi.  The end of the text gives "EOF" and a comment gives no
\* token ("COMMENT"); a line comment runs to the end of the line, a
\* general comment to the first "*/" and is an error when there is none.
\* A back quote opens a raw string literal, which runs to the next back
\* quote, is an error when there is none, and has its carriage returns
\* taken out.  A character that is none of Go's is an "ERROR"; a double or
\* single quote is "UNMODELLED".
NextToken(s, i0, semi) ==
    LET white == {" ", "\t", "\r"} \cup (IF semi THEN {} ELSE {"\n"})
        i == i0 + PrefixLen(Drop(s, i0 - 1), white)
        c == CharAt(s, i)
        d == CharAt(s, i + 1)
        e == CharAt(s, i + 2)
        tk(k, v, next, sm) == [tok |-> Tok(k, v), next |-> next, semi |-> sm]
        one(k) == tk(k, <<>>, i + 1, FALSE)
        two(k) == tk(k, <<>>, i + 2, FALSE)
        three(k) == tk(k, <<>>, i + 3, FALSE)
        closer(k) == tk(k, <<>>, i + 1, TRUE)
        switch2(k0, k1) == IF d = "=" THEN two(k1) ELSE one(k0)
        switch3(k0, k1, k2) == IF d = c THEN two(k2) ELSE switch2(k0, k1)
        switch4(k0, k1, k2, k3) ==
            IF d = c THEN (IF e = "=" THEN three(k3) ELSE two(k2))
            ELSE switch2(k0, k1)
        number == Let(ScanNumber(s, i), LAMBDA t : tk(t.k, t.v, i + Len(t.v), TRUE))
        word == Let(Take(Drop(s, i - 1), PrefixLen(Drop(s, i - 1), Letters \cup DigitSet)),
                    LAMBDA lit :
                    IF Len(lit) > 1 /\ lit \in Keywords
                    THEN tk("KEYWORD", lit, i + Len(lit), lit \in SemiKeywords)
                    ELSE tk("IDENT", lit, i + Len(lit), TRUE))
        closes == {j \in (i + 2)..(Len(s) - 1) : s[j] = "*" /\ s[j + 1] = "/"}
        feeds == {j \in (i + 2)..Len(s) : s[j] = "\n"}
        quotes == {j \in (i + 1)..Len(s) : s[j] = BackQuote}
        rawString ==
            IF quotes = {} THEN tk("ERROR", <<>>, Len(s) + 1, TRUE)
            ELSE Let(CHOOSE j \in quotes : \A k \in quotes : j <= k, LAMBDA j :
                     tk("STRING", SelectSeq(SubSeq(s, i, j), LAMBDA ch : ch # "\r"),
                        j + 1, TRUE))
        comment ==
            IF semi /\ findLineEnd(s, i) THEN tk("SEMICOLON", <<"\n">>, i, FALSE)
            ELSE IF d = "/"
            THEN tk("COMMENT", <<>>,
                    IF feeds = {} THEN Len(s) + 1
                    ELSE CHOOSE j \in feeds : \A k \in feeds : j <= k,
                    FALSE)
            ELSE IF closes = {} THEN tk("ERROR", <<>>, Len(s) + 1, FALSE)
            ELSE tk("COMMENT", <<>>, 2 + CHOOSE j \in closes : \A k \in closes : j <= k,
                    FALSE)
    IN  CASE c = "EOF" -> IF semi THEN tk("SEMICOLON", <<"\n">>, i, FALSE)
                         ELSE tk("EOF", <<>>, i, FALSE)
          [] c = "\n" -> tk("SEMICOLON", <<"\n">>, i + 1, FALSE)
          [] c \in Letters -> word
          [] IsDigit(c) -> number
          [] c = "." -> IF IsDigit(d) THEN number
                        ELSE IF d = "." /\ e = "." THEN three("ELLIPSIS")
                        ELSE one("PERIOD")
          [] c = ":" -> switch2("COLON", "DEFINE")
          [] c = "," -> one("COMMA")
          [] c = ";" -> tk("SEMICOLON", <<";">>, i + 1, FALSE)
          [] c = "(" -> one("LPAREN")
          [] c = ")" -> closer("RPAREN")
          [] c = "[" -> one("LBRACK")
          [] c = "]" -> closer("RBRACK")
          [] c = "{" -> one("LBRACE")
          [] c = "}" -> closer("RBRACE")
          [] c = "+" -> IF d = "+" THEN tk("INC", <<>>, i + 2, TRUE)
                        ELSE switch2("ADD", "ADD_ASSIGN")
          [] c = "-" -> IF d = "-" THEN tk("DEC", <<>>, i + 2, TRUE)
                        ELSE switch2("SUB", "SUB_ASSIGN")
          [] c = "*" -> switch2("MUL", "MUL_ASSIGN")
          [] c = "/" -> IF d \in {"/", "*"} THEN comment
                        ELSE switch2("QUO", "QUO_ASSIGN")
          [] c = "%" -> switch2("REM", "REM_ASSIGN")
          [] c = "^" -> switch2("XOR", "XOR_ASSIGN")
          [] c = "<" -> IF d = "-" THEN two("ARROW")
                        ELSE switch4("LSS", "LEQ", "SHL", "SHL_ASSIGN")
          [] c = ">" -> switch4("GTR", "GEQ", "SHR", "SHR_ASSIGN")
          [] c = "=" -> switch2("ASSIGN", "EQL")
          [] c = "!" -> switch2("NOT", "NEQ")
          [] c = "&" -> IF d = "^"
                        THEN (IF e = "=" THEN three("AND_NOT_ASSIGN") ELSE two("AND_NOT"))
                        ELSE switch3("AND", "AND_ASSIGN", "LAND")
          [] c = "|" -> switch3("OR", "OR_ASSIGN", "LOR")
          [] c = "~" -> one("TILDE")
          [] c = BackQuote -> rawString
          [] c \in QuoteChars \ {BackQuote} -> one("UNMODELLED")
          [] OTHER -> tk("ERROR", <<>>, i + 1, semi)

\* the tokens of s from position i on, comments skipped, up to the end of
\* the text, or up to the first token that is an error or is left out
RECURSIVE Scan(_, _, _)
Scan(s, i, semi) ==
    Let(NextToken(s, i, semi), LAMBDA t :
        IF t.tok.k = "EOF" THEN <<>>
        ELSE IF t.tok.k = "COMMENT" THEN Scan(s, t.next, t.semi)
        ELSE IF t.tok.k \in {"ERROR", "UNMODELLED"} THEN <<t.tok>>
        ELSE <<t.tok>> \o Scan(s, t.next, t.semi))

\* a precedence that is the same for every binary operator
FlatPrecedence(k) == IF k \in {"ADD", "SUB", "MUL", "QUO", "REM"} THEN 4 ELSE 0

\* token.Precedence for the binary operators; 0 (LowestPrec) for the rest
Precedence(k) ==
    IF k = "LOR" THEN 1
    ELSE IF k = "LAND" THEN 2
    ELSE IF k \in {"EQL", "NEQ", "LSS", "LEQ", "GTR", "GEQ"} THEN 3
    ELSE IF k \in {"ADD", "SUB", "OR", "XOR"} THEN 4
    ELSE IF k \in {"MUL", "QUO", "REM", "SHL", "SHR", "AND", "AND_NOT"} THEN 5
    ELSE 0

KindAt(toks, i) == IF i <= Len(toks) THEN toks[i].k ELSE "EOF"

\* the tokens that begin or continue syntax the model of the parser leaves
\* out: index and slice expressions, composite literals, argument lists of
\* more than one expression, receive and channel syntax, constraints,
\* string and character literals, type and function literals
LeftOut(toks, i) ==
    \/ KindAt(toks, i) \in {"LBRACK", "LBRACE", "COMMA", "ARROW", "TILDE", "UNMODELLED"}
    \/ KindAt(toks, i) = "KEYWORD" /\ toks[i].v \in TypeKeywords

\* a parse step returns whether it went without error, the expression and
\* the position of the next token
Parsed(x, pos) == [ok |-> TRUE, x |-> x, pos |-> pos]

ParseFail(pos) == [ok |-> FALSE, x |-> [t |-> "BadExpr"], pos |-> pos]

\* the parser at a token it does not accept: an error, unless the token is
\* one where the model ends
Unexpected(toks, pos) ==
    IF LeftOut(toks, pos) THEN [ok |-> FALSE, x |-> [t |-> "Unmodelled"], pos |-> pos]
    ELSE ParseFail(pos)

RECURSIVE parseBinaryExpr(_, _, _), binaryLoop(_, _, _), parseUnaryExpr(_, _),
          parsePrimaryExpr(_, _), primaryLoop(_, _), parseOperand(_, _),
          parseType(_, _)

\* parser.parseType for a type name, a qualified type name, a pointer type
\* and a parenthesized type
parseType(toks, i) ==
    LET k == KindAt(toks, i)
        name == [t |-> "Ident", Name |-> toks[i].v]
    IN  IF k = "IDENT"
        THEN IF KindAt(toks, i + 1) # "PERIOD" THEN Parsed(name, i + 1)
             ELSE IF KindAt(toks, i + 2) # "IDENT" THEN Unexpected(toks, i + 2)
             ELSE Parsed([t |-> "SelectorExpr", X |-> name, Sel |-> toks[i + 2].v], i + 3)
        ELSE IF k = "MUL"
        THEN Let(parseType(toks, i + 1), LAMBDA r :
                 IF ~r.ok THEN r ELSE Parsed([t |-> "StarExpr", X |-> r.x], r.pos))
        ELSE IF k = "LPAREN"
        THEN Let(parseType(toks, i + 1), LAMBDA r :
                 IF ~r.ok THEN r
                 ELSE IF KindAt(toks, r.pos) # "RPAREN" THEN Unexpected(toks, r.pos)
                 ELSE Parsed([t |-> "ParenExpr", X |-> r.x], r.pos + 1))
        ELSE Unexpected(toks, i)

\* parser.parseOperand: an identifier, a literal or a parenthesized
\* expression
parseOperand(toks, i) ==
    LET k == KindAt(toks, i)
    IN  IF k = "IDENT" THEN Parsed([t |-> "Ident", Name |-> toks[i].v], i + 1)
        ELSE IF k \in {"INT", "FLOAT", "IMAG", "CHAR", "STRING"}
        THEN Parsed([t |-> "BasicLit", Kind |-> k, Value |-> toks[i].v], i + 1)
        ELSE IF k = "LPAREN"
        THEN Let(parseBinaryExpr(toks, i + 1, 1), LAMBDA r :
                 IF ~r.ok THEN r
                 ELSE IF KindAt(toks, r.pos) # "RPAREN" THEN Unexpected(toks, r.pos)
                 ELSE Parsed([t |-> "ParenExpr", X |-> r.x], r.pos + 1))
        ELSE Unexpected(toks, i)

\* the loop of parser.parsePrimaryExpr over what follows the operand r.x:
\* a period makes a selector or a type assertion, a parenthesis a call
\* with no argument or one, which may be followed by an ellipsis
primaryLoop(toks, r) ==
    LET k  == KindAt(toks, r.pos)
        k1 == KindAt(toks, r.pos + 1)
        k2 == KindAt(toks, r.pos + 2)
        call(args, pos) == primaryLoop(toks, Parsed([t |-> "CallExpr", Fun |-> r.x,
                                                     Args |-> args], pos))
        typeAssertion(type, pos) ==
            IF KindAt(toks, pos) # "RPAREN" THEN Unexpected(toks, pos)
            ELSE primaryLoop(toks, Parsed([t |-> "TypeAssertExpr", X |-> r.x,
                                           Type |-> type], pos + 1))
    IN  IF k = "PERIOD"
        THEN IF k1 = "IDENT"
             THEN primaryLoop(toks, Parsed([t |-> "SelectorExpr", X |-> r.x,
                                            Sel |-> toks[r.pos + 1].v], r.pos + 2))
             ELSE IF k1 # "LPAREN" THEN Unexpected(toks, r.pos + 1)
             ELSE IF k2 = "KEYWORD" /\ toks[r.pos + 2].v = Kw_type
             THEN typeAssertion([t |-> "nil"], r.pos + 3)
             ELSE Let(parseType(toks, r.pos + 2), LAMBDA ty :
                      IF ~ty.ok THEN ty ELSE typeAssertion(ty.x, ty.pos))
        ELSE IF k # "LPAREN" THEN r
        ELSE IF k1 = "RPAREN" THEN call(<<>>, r.pos + 2)
        ELSE Let(parseBinaryExpr(toks, r.pos + 1, 1), LAMBDA a :
             Let(IF a.ok /\ KindAt(toks, a.pos) = "ELLIPSIS" THEN a.pos + 1 ELSE a.pos,
                 LAMBDA pos :
                 IF ~a.ok THEN a
                 ELSE IF KindAt(toks, pos) # "RPAREN" THEN Unexpected(toks, pos)
                 ELSE call(<<a.x>>, pos + 1)))

parsePrimaryExpr(toks, i) ==
    Let(parseOperand(toks, i), LAMBDA r : IF ~r.ok THEN r ELSE primaryLoop(toks, r))

\* parser.parseUnaryExpr: a unary operator makes a UnaryExpr, a '*' a
\* StarExpr
parseUnaryExpr(toks, i) ==
    LET k == KindAt(toks, i)
    IN  IF k \in {"ADD", "SUB", "NOT", "XOR", "AND"}
        THEN Let(parseUnaryExpr(toks, i + 1), LAMBDA r :
                 IF ~r.ok THEN r
                 ELSE Parsed([t |-> "UnaryExpr", Op |-> k, X |-> r.x], r.pos))
        ELSE IF k = "MUL"
        THEN Let(parseUnaryExpr(toks, i + 1), LAMBDA r :
                 IF ~r.ok THEN r
                 ELSE Parsed([t |-> "StarExpr", X |-> r.x], r.pos))
        ELSE parsePrimaryExpr(toks, i)

\* the for loop of parser.parseBinaryExpr: while the next operator binds
\* at least as tightly as prec1, take it with a right operand that binds
\* tighter
binaryLoop(toks, r, prec1) ==
    LET op == KindAt(toks, r.pos)
    IN  IF Precedence(op) < prec1 THEN r
        ELSE Let(parseBinaryExpr(toks, r.pos + 1, Precedence(op) + 1), LAMBDA y :
                 IF ~y.ok THEN y
                 ELSE binaryLoop(toks,
                                 Parsed([t |-> "BinaryExpr", Op |-> op, X |-> r.x,
                                         Y |-> y.x], y.pos),
                                 prec1))

parseBinaryExpr(toks, i, prec1) ==
    Let(parseUnaryExpr(toks, i), LAMBDA r :
        IF ~r.ok THEN r ELSE binaryLoop(toks, r, prec1))

\* parser.ParseExpr: an error of the scanner is an error of the parse; the
\* text must be one expression, after which a semicolon that a line end
\* made is consumed, up to the end of the text
ParseExpr(exp) ==
    Let(Scan(exp, 1, FALSE), LAMBDA toks :
        IF \E i \in 1..Len(toks) : toks[i].k = "ERROR" THEN ParseFail(1)
        ELSE Let(parseBinaryExpr(toks, 1, 1), LAMBDA r :
             Let(IF r.ok /\ KindAt(toks, r.pos) = "SEMICOLON" /\ toks[r.pos].v = <<"\n">>
                 THEN r.pos + 1 ELSE r.pos,
                 LAMBDA pos :
                 IF r.ok /\ pos # Len(toks) + 1 THEN Unexpected(toks, pos) ELSE r)))

(***************************************************************************)
(* evalMemory and parseMemory.  The result is the error ("nil" when none;  *)
(* "PANIC" when the evaluation aborts instead of returning), the value,    *)
(* and what an ErrUnsupportedExpr carries.                                 *)
(***************************************************************************)
EvalOk(v) == [err |-> "nil", val |-> v, kind |-> ""]

EvalErr(e, kind) == [err |-> e, val |-> U32Zero, kind |-> kind]

\* the arithmetic of the last switch of the BinaryExpr case
ApplyOp(op, x, y) ==
    IF op = "ADD" THEN EvalOk(U32Add(x, y))
    ELSE IF op = "SUB" THEN EvalOk(U32Sub(x, y))
    ELSE IF op = "MUL" THEN EvalOk(U32Mul(x, y))
    ELSE IF y = U32Zero THEN EvalErr("PANIC", "integer divide by zero")
    ELSE EvalOk(U32Div(x, y))

RECURSIVE evalMemory(_)
evalMemory(tree) ==
    IF tree.t = "BasicLit" THEN
        IF tree.Kind # "INT" THEN EvalErr("ErrUnsupportedExpr", tree.Kind)
        ELSE Let(ParseUint32(tree.Value), LAMBDA u :
                 IF u.err # "nil" THEN EvalErr(u.err, "") ELSE EvalOk(u.val))
    ELSE IF tree.t = "BinaryExpr" THEN
        IF tree.Op \notin {"ADD", "SUB", "MUL", "QUO"}
        THEN EvalErr("ErrUnsupportedExpr", tree.Op)
        ELSE Let(evalMemory(tree.X), LAMBDA x :
             IF x.err # "nil" THEN x
             ELSE Let(evalMemory(tree.Y), LAMBDA y :
                  IF y.err # "nil" THEN y
                  ELSE ApplyOp(tree.Op, x.val, y.val)))
    ELSE IF tree.t = "ParenExpr" THEN evalMemory(tree.X)
    ELSE EvalErr("ErrUnsupportedExpr", tree.t)

\* the outcome "Unmodelled" is that of a text with syntax the model of the
\* parser leaves out
parseMemory(exp) ==
    Let(ParseExpr(exp), LAMBDA tree :
        IF tree.ok THEN evalMemory(tree.x)
        ELSE IF tree.x.t = "Unmodelled" THEN EvalErr("Unmodelled", "")
        ELSE EvalErr("ErrorList", ""))

(***************************************************************************)
(* NewHasherFromString.  The result is the error ("nil" when none; "PANIC" *)
(* when the call aborts instead of returning), the Hasher returned         *)
(* (NilHasher with an error) and what an ErrUnknownSetting carries.        *)
(***************************************************************************)
\* the nil *Hasher
NilHasher == [nil |-> TRUE]

SettingOk(h) == [err |-> "nil", h |-> h, setting |-> <<>>]

SettingErr(e) == [err |-> e, h |-> NilHasher, setting |-> <<>>]

\* an error that carries the token's text before its '='
unknownSettingKey(v) ==
    [err |-> "ErrUnknownSetting", h |-> NilHasher,
     setting |-> Take(v, PrefixLen(v, {v[i] : i \in 1..Len(v)} \ {"="}))]

\* default: return nil, &ErrUnknownSetting{v[0:1]}
unknownSetting(v) == [err |-> "ErrUnknownSetting", h |-> NilHasher, setting |-> Take(v, 1)]

\* the body of the loop for the token v, on the Hasher h filled so far
settingCase(h, v) ==
    LET key == IF Len(v) >= 2 THEN Take(v, 2) ELSE <<>>
        \* case "s=", "k=", "t=", "p=": Sscanf into a uint32 or a uint8
        scanned(field, maxDigits) ==
            Let(ScanKeyUint(v, v[1], maxDigits), LAMBDA n :
                IF n.err # "nil" THEN SettingErr(n.err)
                ELSE SettingOk([h EXCEPT ![field] = n.val]))
    IN  CASE Len(v) < 2 -> SettingErr("PANIC")
          [] key = <<"f", "=">> ->
                Let(ScanString(Drop(v, 2)), LAMBDA form :
                    IF form.err # "nil" THEN SettingErr(form.err)
                    ELSE IF form.val = Str_argon2i THEN SettingOk([h EXCEPT !.Form = FormI])
                    ELSE IF form.val = Str_argon2id THEN SettingOk([h EXCEPT !.Form = FormID])
                    ELSE SettingErr("ErrInvalidForm"))
          [] key = <<"s", "=">> -> scanned("SaltLength", MaxUint32Digits)
          [] key = <<"k", "=">> -> scanned("KeyLength", MaxUint32Digits)
          [] key = <<"m", "=">> ->
                Let(parseMemory(Drop(v, 2)), LAMBDA memory :
                    IF memory.err # "nil" THEN SettingErr(memory.err)
                    ELSE SettingOk([h EXCEPT !.Memory = memory.val]))
          [] key = <<"t", "=">> -> scanned("Iterations", MaxUint32Digits)
          [] key = <<"p", "=">> ->
                Let(ScanKeyUint(v, "p", MaxUint8Digits), LAMBDA n :
                    IF n.err # "nil" THEN SettingErr(n.err)
                    ELSE SettingOk([h EXCEPT !.Parallelism = n.val[2]]))
          [] OTHER -> unknownSetting(v)

\* the loop over valueSlice from its i-th token on: the first token that
\* fails ends the call
RECURSIVE settingLoop(_, _, _)
settingLoop(valueSlice, i, h) ==
    IF i > Len(valueSlice) THEN SettingOk(h)
    ELSE Let(settingCase(h, valueSlice[i]), LAMBDA r :
             IF r.err # "nil" THEN r ELSE settingLoop(valueSlice, i + 1, r.h))

NewHasherFromString(settings) ==
    Let(Split(settings, ","), LAMBDA valueSlice : settingLoop(valueSlice, 1, ZeroHasher))

(***************************************************************************)
(* Spec: a caller holds a Hasher, creates a hash with it and verifies the  *)
(* hash it has just created, as created or with one character of the salt  *)
(* or key segment replaced.                                                *)
(***************************************************************************)
MaxSaltLen == 2

MaxKeyLen == 2

\* Form is an int: the two variants, the zero value and values outside
Forms == {-1, 0, FormI, FormID, 7}

SaltLengths == {U32Zero, U32(1), U32(MaxSaltLen)}

KeyLengths == {U32Zero, U32(1), U32(MaxKeyLen)}

MemoryValues == {U32Zero, U32(65536)}

IterationValues == {U32Zero, U32(3)}

ParallelismValues == {0, 2}

Configs ==
    [Form : Forms, SaltLength : SaltLengths, KeyLength : KeyLengths,
     Memory : MemoryValues, Iterations : IterationValues,
     Parallelism : ParallelismValues]

SaltBytes == {0, 255}

\* two passwords that differ in case, and one whose 1-byte Argon2id key
\* under the salt <<0>> is that of the first
Passwords == {<<"p", "w">>, <<"P", "w">>, <<"a", "s">>}

\* what rand.Read may do with a buffer of n bytes
RngOutcomes(n) ==
    {[err |-> TRUE, salt |-> <<>>]}
    \cup {[err |-> FALSE, salt |-> b] : b \in [1..n -> SaltBytes]}

\* replacement characters: of the alphabet, outside it, the padding
\* character, a line feed, the field delimiter
AlterChars == {"B", "/", "!", "=", "\n", "$"}

\* text with the pos-th character of its seg-th '$'-delimited piece
\* (counted from 1) replaced by c
Alter(text, seg, pos, c) ==
    LET parts == Split(text, "$")
        start == Len(Join(SubSeq(parts, 1, seg - 1), "$")) + (IF seg > 1 THEN 1 ELSE 0)
    IN  [i \in 1..Len(text) |-> IF i = start + pos THEN c ELSE text[i]]

NoCall == [op |-> "none"]

NoAlt == [seg |-> 0, pos |-> 0, c |-> ""]

Init ==
    /\ hasher \in Configs
    /\ hash = <<>>
    /\ input = <<>>
    /\ res = NoCall

\* hash, err := hasher.Create(password).  The package keeps no state between
\* calls, so a behaviour is one creation and the verifications of its hash.
Create(password, rnd) ==
    /\ res = NoCall
    /\ \E r \in {hashCreate(hasher, password, rnd)} :
           /\ hash' = r.hash
           /\ res' = [op |-> "Create", pw |-> password, rnd |-> rnd, err |-> r.err,
                      rng |-> r.rng, kdf |-> r.kdf]
    /\ UNCHANGED <<hasher, input>>

MatchesResult(password, text, alt, made) ==
    \E r \in {hashCompare(password, text)} :
        res' = [op |-> "Matches", pw |-> password, text |-> text, alt |-> alt,
               made |-> made, ok |-> r.ok, err |-> r.err, kdf |-> r.kdf,
               version |-> r.version]

\* ok, err := Matches(password, hash) on the hash just created; made is the
\* password and salt that hash was created from
Matches(password) ==
    /\ res.op = "Create"
    /\ MatchesResult(password, hash, NoAlt, [pw |-> res.pw, rnd |-> res.rnd])
    /\ UNCHANGED <<hasher, hash, input>>

\* Matches on the hash just created with one character of segment seg
\* (5 the salt, 6 the key) replaced by another
MatchesAltered(password, seg, pos, c) ==
    /\ res.op = "Create"
    /\ hash # <<>>
    /\ pos \in 1..Len(Split(hash, "$")[seg])
    /\ Split(hash, "$")[seg][pos] # c
    /\ MatchesResult(password, Alter(hash, seg, pos, c),
                     [seg |-> seg, pos |-> pos, c |-> c],
                     [pw |-> res.pw, rnd |-> res.rnd])
    /\ UNCHANGED <<hasher, hash, input>>

Next ==
    \/ \E password \in Passwords :
           \E rnd \in RngOutcomes(U32ToNat(hasher.SaltLength)) :
               Create(password, rnd)
    \/ \E password \in Passwords : Matches(password)
    \/ \E password \in Passwords, seg \in {5, 6}, pos \in 1..4, c \in AlterChars :
           MatchesAltered(password, seg, pos, c)

Spec == Init /\ [][Next]_vars

(***************************************************************************)
(* SpecExpr: parseMemory on an expression text.                            *)
(***************************************************************************)
\* the numeral of n < 10^9
Num(n) ==
    LET len == CHOOSE k \in 1..9 : n < 10 ^ k /\ (k = 1 \/ n >= 10 ^ (k - 1))
    IN  [i \in 1..len |-> DigitChars[((n \div 10 ^ (len - i)) % 10) + 1]]

Lit_Max == <<"4", "2", "9", "4", "9", "6", "7", "2", "9", "5">>

Lit_Over == <<"4", "2", "9", "4", "9", "6", "7", "2", "9", "6">>

Lit_TestOver == <<"4", "2", "9", "4", "9", "6", "7", "3", "0", "0">>

Literals == {Num(0), Num(2), Num(5), Num(10), Num(65536), Lit_Max, Lit_Over}

SmallLiterals == {Num(2), Num(5), Num(10)}

OpChars == {"+", "-", "*", "/"}

Paren(e) == <<"(">> \o e \o <<")">>

\* the expressions of one operator
Binary(ls, rs) == {l \o <<o>> \o r : l \in ls, o \in OpChars, r \in rs}

\* the expressions of two operators, without parentheses and with them
\* around either pair
Ternary(ls) ==
    {a \o <<o1>> \o b \o <<o2>> \o c : a \in ls, b \in ls, c \in ls, o1 \in OpChars, o2 \in OpChars}
    \cup {Paren(a \o <<o1>> \o b) \o <<o2>> \o c :
             a \in ls, b \in ls, c \in ls, o1 \in OpChars, o2 \in OpChars}
    \cup {a \o <<o1>> \o Paren(b \o <<o2>> \o c) :
             a \in ls, b \in ls, c \in ls, o1 \in OpChars, o2 \in OpChars}

\* e with a space on each side of every operator and parenthesis
Spaced(e) ==
    LET wide(c) == IF c \in OpChars \cup {"(", ")"} THEN <<" ", c, " ">> ELSE <<c>>
        W[k \in 0..Len(e)] == IF k = 0 THEN <<>> ELSE W[k - 1] \o wide(e[k])
    IN  W[Len(e)]

\* "((64*1024)+(20-10))/2", and the expressions of the package's tests
Expr_Test(x) ==
    Paren(Paren(Num(64) \o <<"*">> \o x) \o <<"+">>
          \o Paren(Num(20) \o <<"-">> \o Num(10))) \o <<"/">> \o Num(2)

Expr_Nested == Expr_Test(Num(1024))

Expr_Wrap == Num(5) \o <<"-">> \o Num(10)

TestExprs ==
    {Expr_Nested, Spaced(Expr_Nested), Expr_Wrap, Spaced(Expr_Wrap),
     Num(64) \o <<"*">> \o Num(1024), Num(65546),
     Paren(Paren(Num(64) \o <<"%">> \o Num(1024)) \o <<"+">>
           \o Paren(Num(20) \o <<"-">> \o Num(10))) \o <<"/">> \o Num(2),
     Expr_Test(<<"-">> \o Num(1024)),
     Expr_Test(Lit_TestOver),
     Expr_Test(Paren(<<"3", ".", "1", "4">>))}

\* texts that are not expressions of decimal literals and the four
\* operators
OtherExprs ==
    {<<>>, <<" ">>, <<"5", " ", "5">>, <<"0", "8">>, <<"0", "1", "0">>, <<"(", "5">>,
     <<"5", ")">>, <<"(", ")">>, <<"5", "%", "2">>, <<"-", "5">>, <<"+", "5">>,
     <<"*", "5">>, <<"5", "+", "+", "2">>, <<"5", "+", " ", "+", "2">>,
     <<"5", ".">>, <<".", "5">>, <<"5", " ", ".">>, <<"2", "(", "3", ")">>,
     <<"2", "(", ")">>, <<"2", "(", "3", " ", ".", ".", ".", ")">>,
     <<"4", "/", "/", "2">>, <<"4", "+", "/", "/", "2">>, <<"8", "/", "*", "2">>,
     <<"8", "/", "*", "2", "*", "/">>, <<"8", "/", "*", "2", "*", "/", "2">>,
     <<"8", "/", "*", "2", "*", "/", "/", "2">>, <<"5", "-", "-", "2">>,
     <<"5", "*", "(", "2", "%", "2", ")">>, Lit_Over \o <<"%", "2">>,
     <<"0", "x", "1", "0">>, <<"0", "b", "1", "2">>, <<"1", "e", "3">>,
     <<"0", "x", "1", "p", "2">>, <<"1", "_", "0", "0", "0">>, <<"1", "_", "_", "0">>,
     <<"1", ".", "5", "i">>, <<"1", "\t", "+", "2">>, <<"1", "\f", "+", "2">>,
     <<"5", "\n">>, <<"5", "\n", "+", "2">>, <<"5", "+", "\n", "2">>,
     <<"4", "/", "/", "2", "\n", "+", "3">>, <<"8", "/", "*", "\n", "*", "/", "2">>,
     <<"a", "b", "c">>, <<"a", ".", "b">>, <<"a", ".", "(", "b", ")">>,
     <<"a", ".", "(", "t", "y", "p", "e", ")">>, <<"a", ".", "(", "*", "b", ".", "c", ")">>,
     <<"i", "f">>, <<"f", "u", "n", "c">>, <<"5", ";">>, <<"5", "#">>,
     <<"[", "1", "]">>, <<"f", "(", "1", ",", "2", ")">>, <<"1", "<", "<", "2">>,
     <<"1", "<", "-", "2">>, <<"1", "&", "^", "2">>, <<"1", "|", "|", "2">>,
     <<"!", "1">>, <<"1", "=", "2">>, <<"1", "+", "+">>, <<"\"", "a", "\"">>,
     <<BackQuote, "a", BackQuote>>, <<BackQuote, "a">>,
     <<BackQuote, "a", "\r", BackQuote, "\n">>, <<"5", "+", BackQuote, BackQuote>>}

\* the expressions of literals, the four operators, parentheses and spaces
WellFormedExprs ==
    Literals \cup {Paren(l) : l \in Literals}
    \cup Binary(Literals, Literals)
    \cup {Spaced(e) : e \in Binary(SmallLiterals, SmallLiterals)}
    \cup Ternary(SmallLiterals)
    \cup {Expr_Nested, Spaced(Expr_Nested), Expr_Wrap, Spaced(Expr_Wrap)}

ExprInputs == WellFormedExprs \cup TestExprs \cup OtherExprs

InitExpr ==
    /\ hasher = ZeroHasher
    /\ hash = <<>>
    /\ input \in ExprInputs
    /\ res = NoCall

\* memory, err := parseMemory(input)
ParseMemory ==
    /\ \E r \in {parseMemory(input)} :
           res' = [op |-> "parseMemory", err |-> r.err, val |-> r.val, kind |-> r.kind]
    /\ UNCHANGED <<hasher, hash, input>>

NextExpr == ParseMemory

SpecExpr == InitExpr /\ [][NextExpr]_vars

(***************************************************************************)
(* SpecSettings: NewHasherFromString on a settings text.  The texts are    *)
(* the six settings in some order, with at most one of them left out and   *)
(* at most one further token put in.                                       *)
(***************************************************************************)
SettingKeys == <<"f", "s", "k", "m", "t", "p">>

FormNames == {Str_argon2i, Str_argon2id, Str_argon2d}

\* the token of the i-th key
SettingToken(i, form) ==
    CASE i = 1 -> <<"f", "=">> \o form
      [] i = 2 -> <<"s", "=", "1">>
      [] i = 3 -> <<"k", "=", "2">>
      [] i = 4 -> <<"m", "=", "6", "4", "*", "1", "0", "2", "4">>
      [] i = 5 -> <<"t", "=", "3">>
      [] i = 6 -> <<"p", "=", "2">>

Orders == {<<1, 2, 3, 4, 5, 6>>, <<6, 5, 4, 3, 2, 1>>, <<4, 1, 6, 2, 5, 3>>}

\* further tokens: unknown keys of one and of two characters, a second
\* value for a key, values that do not scan or evaluate, tokens of fewer
\* than two characters, values after a form feed or before one
ExtraTokens ==
    {<<"j", "=", "9">>, <<"j", "k", "=", "9">>, <<"s", "=", "7">>,
     <<"p", "=", "2", "5", "6">>, <<"m", "=", "5", "/", "0">>,
     <<"m", "=", "6", "5", "5", "3", "6", "*", "6", "5", "5", "3", "6">>,
     <<"j">>, <<>>, <<"s", "=", "\f", "5">>, <<"k", "=", "1", "_", "0">>,
     <<"f", "=", "a", "r", "g", "o", "n", "2", "i", "\f", "x">>,
     <<"m", "=", "0", "x", "1", "0">>, <<"m", "=", "a", "b", "c">>,
     <<"m", "=", "1", "\t", "+", "2">>, <<"m", "=", BackQuote, "a", BackQuote>>}

\* the tokens of an order without the key left out (0: none), with the
\* further token after the first at tokens (none when extra is <<>> and
\* at is negative)
SettingTokens(form, order, out, extra, at) ==
    LET skip == IF out = 0 THEN 7 ELSE CHOOSE j \in 1..6 : order[j] = out
        kept(n) == IF n < skip THEN order[n] ELSE order[n + 1]
    IN  Let([n \in 1..(IF out = 0 THEN 6 ELSE 5) |-> SettingToken(kept(n), form)],
            LAMBDA toks :
                IF at < 0 THEN toks
                ELSE IF at > Len(toks) THEN toks \o <<extra>>
                ELSE SubSeq(toks, 1, at) \o <<extra>> \o SubSeq(toks, at + 1, Len(toks)))

SettingsInputs ==
    {Join(SettingTokens(form, order, out, <<>>, -1), ",") :
        form \in FormNames, order \in Orders, out \in 0..6}
    \cup {Join(SettingTokens(form, order, out, extra, at), ",") :
             form \in FormNames, order \in Orders, out \in {0, 5},
             extra \in ExtraTokens, at \in {0, 3, 6}}
    \cup {<<>>}

InitSettings ==
    /\ hasher = ZeroHasher
    /\ hash = <<>>
    /\ input \in SettingsInputs
    /\ res = NoCall

\* hasher, err := NewHasherFromString(input)
NewHasher ==
    /\ \E r \in {NewHasherFromString(input)} :
           /\ res' = [op |-> "NewHasherFromString", err |-> r.err, h |-> r.h,
                      setting |-> r.setting]
           /\ hasher' = IF r.err = "nil" THEN r.h ELSE hasher
    /\ UNCHANGED <<hash, input>>

NextSettings == NewHasher

SpecSettings == InitSettings /\ [][NextSettings]_vars

(***************************************************************************)
(* SpecMatches: Matches on a hash text put together from a choice for each *)
(* field, with the six fields, one fewer or one more.                      *)
(***************************************************************************)
FormTags == {Str_argon2i, Str_argon2id, Str_argon2d, <<>>}

VersionFields ==
    {<<"v", "=">> \o Num(19), <<"v", "=">> \o Num(13), <<"v", "=">> \o Num(0),
     <<"v", "=", "-", "1", "9">>, <<"v", "=", "0", "1", "9">>,
     <<"v", "=", "1", "9", "x">>, <<"v", "=">>, <<"x", "=", "1", "9">>,
     <<"v", "=", "\f", "1", "9">>}

ParamFields ==
    {<<"m", "=", "8", ",", "t", "=", "3", ",", "p", "=", "2">>,
     <<"m", "=", "8", ",", "t", "=", "0", ",", "p", "=", "2">>,
     <<"m", "=", "8", ",", "t", "=", "3", ",", "p", "=", "0">>,
     <<"m", "=", "8", ",", "t", "=", "3", ",", "p", "=", "2", "5", "6">>,
     <<"m", "=", "8", ",", "t", "=", "3">>}

SaltFields == {<<"A", "A", "A">>, <<"A", "!", "A">>}

KeyFields == {<<"/", "w">>, <<"A", "A", "A">>, <<"A">>, <<>>}

\* the fields joined by '$' after a leading '$'; shape 6 is the format of
\* Create, 5 lacks the key field, 7 has one field more
HashText(shape, tag, ver, prm, salt, key) ==
    LET six == <<<<>>, tag, ver, prm, salt, key>>
    IN  Join(CASE shape = 5 -> SubSeq(six, 1, 5)
               [] shape = 6 -> six
               [] shape = 7 -> six \o <<<<"x">>>>, "$")

HashTexts ==
    {HashText(shape, tag, ver, prm, salt, key) :
        shape \in {5, 6, 7}, tag \in FormTags, ver \in VersionFields,
        prm \in ParamFields, salt \in SaltFields, key \in KeyFields}
    \cup {<<>>}

InitMatches ==
    /\ hasher = ZeroHasher
    /\ hash = <<>>
    /\ input \in HashTexts
    /\ res = NoCall

\* ok, err := Matches(password, input)
MatchesText(password) ==
    /\ res = NoCall
    /\ MatchesResult(password, input, NoAlt,
                     [pw |-> <<>>, rnd |-> [err |-> TRUE, salt |-> <<>>]])
    /\ UNCHANGED <<hasher, hash, input>>

NextMatches == \E password \in Passwords : MatchesText(password)

SpecMatches == InitMatches /\ [][NextMatches]_vars

(***************************************************************************)
(* Properties of Create and Matches (Spec)                                 *)
(***************************************************************************)
\* every numeric field of the Hasher is nonzero
NumericNonzero(h) ==
    /\ h.SaltLength # U32Zero /\ h.KeyLength # U32Zero /\ h.Memory # U32Zero
    /\ h.Iterations # U32Zero /\ h.Parallelism # 0

ValidForCreation(h) == h.Form \in {FormI, FormID} /\ NumericNonzero(h)

\* Matches was called on the unaltered hash that Create made with the
\* random source returning a salt
VerifiedCreated ==
    res.op = "Matches" /\ res.alt = NoAlt /\ ValidForCreation(hasher)
    /\ ~res.made.rnd.err

\* C1: with a configuration valid for creation and the random source
\* returning a salt, Create succeeds with a hash, and Matches of the same
\* password on that hash returns true and no error.
C1_RoundTrip ==
    /\ (res.op = "Create" /\ ValidForCreation(hasher) /\ ~res.rnd.err)
           => (res.err = "nil" /\ hash # <<>> /\ res.kdf)
    /\ (VerifiedCreated /\ res.pw = res.made.pw) => (res.ok /\ res.err = "nil")

C1_Witness ==
    /\ VerifiedCreated /\ res.pw = res.made.pw /\ res.ok
    /\ Len(res.made.rnd.salt) > 1 /\ hasher.KeyLength # U32(1)

\* C2 as stated: with a valid configuration, Matches of a password on the
\* hash created from a different password returns false and no error.
C2_DistinctPasswordsNeverMatch ==
    (VerifiedCreated /\ res.pw # res.made.pw) => (~res.ok /\ res.err = "nil")

\* the key the key-derivation function gives for a password under the
\* Hasher's parameters and a salt
KeyOf(password, salt) ==
    KDF(KDFArgs(hasher.Form, password, salt, hasher.Iterations, hasher.Memory,
                hasher.Parallelism, U32ToNat(hasher.KeyLength)))

\* C2 amended: Matches of a password on the hash created from a different
\* password returns no error, and returns true exactly when the two
\* passwords derive the same key; a key mismatch is the boolean false.
C2_MismatchIsFalse ==
    (VerifiedCreated /\ res.pw # res.made.pw)
        => /\ res.err = "nil"
           /\ res.ok <=> (KeyOf(res.pw, res.made.rnd.salt)
                          = KeyOf(res.made.pw, res.made.rnd.salt))

C2_Witness ==
    VerifiedCreated /\ res.pw # res.made.pw /\ ~res.ok /\ res.err = "nil" /\ res.kdf

\* C4: Create on a Hasher with a zero numeric field or an unset variant
\* fails with ErrInvalidHasherConfiguration, returns no hash, and has
\* called neither the random source nor the key derivation.
C4_InvalidConfiguration ==
    (res.op = "Create" /\ (hasher.Form = 0 \/ ~NumericNonzero(hasher)))
        => /\ res.err = "ErrInvalidHasherConfiguration"
           /\ hash = <<>>
           /\ ~res.rng
           /\ ~res.kdf

C4_Witness ==
    /\ res.op = "Create" /\ hasher.Form = 0 /\ NumericNonzero(hasher)
    /\ res.err = "ErrInvalidHasherConfiguration"

\* C5 as stated: Create on a Hasher with nonzero numeric fields and a
\* variant set to a value other than FormI and FormID fails with
\* ErrInvalidForm, returns no hash and does not call the key derivation.
C5_OtherVariantIsInvalidForm ==
    (res.op = "Create" /\ NumericNonzero(hasher) /\ hasher.Form \notin {0, FormI, FormID})
        => (res.err = "ErrInvalidForm" /\ hash = <<>> /\ ~res.kdf)

\* C5 amended: with nonzero numeric fields and a variant other than FormI
\* and FormID, Create returns no hash and does not call the key derivation;
\* a variant value below 1 fails with ErrInvalidHasherConfiguration before
\* the random source is called, and a positive one fails with
\* ErrInvalidForm once the random source has returned a salt, or with the
\* random source's error.
C5_OtherVariantFails ==
    (res.op = "Create" /\ NumericNonzero(hasher) /\ hasher.Form \notin {0, FormI, FormID})
        => /\ hash = <<>>
           /\ ~res.kdf
           /\ hasher.Form < 1 => (res.err = "ErrInvalidHasherConfiguration" /\ ~res.rng)
           /\ hasher.Form > 0 =>
                 /\ res.rng
                 /\ res.err = (IF res.rnd.err THEN "RNGError" ELSE "ErrInvalidForm")

C5_Witness ==
    /\ res.op = "Create" /\ NumericNonzero(hasher) /\ hasher.Form = 7
    /\ res.err = "ErrInvalidForm"

\* C7 as stated: replacing one character of the salt or key segment of a
\* created hash makes Matches fail with a base64 decode error.
C7_AlteredNeverDecodes ==
    (res.op = "Matches" /\ res.alt # NoAlt) => res.err = "CorruptInputError"

\* C7 amended: replacing one character of the salt or key segment by a
\* character that is neither of the base64 alphabet nor a carriage return,
\* line feed or '$' makes Matches fail with a base64 decode error before
\* the key derivation; replacing it by another alphabet character is not
\* detected: Matches returns a boolean and no error; replacing it by '$'
\* fails with ErrInvalidHash.
C7_AlteredOutsideAlphabet ==
    (res.op = "Matches" /\ res.alt # NoAlt)
        => /\ (~IsB64Char(res.alt.c) /\ res.alt.c \notin {"\n", "\r", "$"})
                 => (res.err = "CorruptInputError" /\ ~res.ok /\ ~res.kdf)
           /\ IsB64Char(res.alt.c) => (res.err = "nil" /\ res.kdf)
           /\ res.alt.c = "$" => res.err = "ErrInvalidHash"
           /\ res.err \in {"nil", "CorruptInputError", "ErrInvalidHash"}

C7_Witness ==
    /\ res.op = "Matches" /\ res.alt # NoAlt /\ res.alt.c = "!" /\ res.alt.seg = 6
    /\ res.err = "CorruptInputError"

(***************************************************************************)
(* Properties of Matches on any hash text (SpecMatches)                    *)
(***************************************************************************)
\* the number of '$'-delimited fields of the text
FieldCount == Cardinality({i \in 1..Len(input) : input[i] = "$"}) + 1

\* C6: a hash text of other than 6 fields fails with ErrInvalidHash;
\* otherwise a variant tag other than argon2i and argon2id fails with
\* ErrInvalidForm; otherwise a version field "v=n" with n not the supported
\* version fails with ErrIncompatibleVersion carrying n; and whenever
\* Matches returns an error the key derivation has not been called.
C6_FormatRejection ==
    res.op = "Matches" =>
        /\ FieldCount # 6 => res.err = "ErrInvalidHash"
        /\ (FieldCount = 6 /\ Split(input, "$")[2] \notin {Str_argon2i, Str_argon2id})
               => res.err = "ErrInvalidForm"
        /\ \A n \in (0..30) \ {Version} :
               (/\ FieldCount = 6
                /\ Split(input, "$")[2] \in {Str_argon2i, Str_argon2id}
                /\ Split(input, "$")[3] = <<"v", "=">> \o Num(n))
               => (res.err = "ErrIncompatibleVersion"
                   /\ res.version = [neg |-> FALSE, mag |-> Num(n)])
        /\ res.err \notin {"nil", "PANIC"} => (~res.kdf /\ ~res.ok)

C6_Witness ==
    /\ res.op = "Matches" /\ FieldCount = 6 /\ res.err = "ErrIncompatibleVersion"
    /\ res.version = [neg |-> FALSE, mag |-> Num(13)]

\* the parameter field sets the iterations or the parallelism to zero, or
\* the key field is empty
ZeroCostOrEmptyKey ==
    /\ FieldCount = 6
    /\ \/ Split(input, "$")[4] \in
              {<<"m", "=", "8", ",", "t", "=", "0", ",", "p", "=", "2">>,
               <<"m", "=", "8", ",", "t", "=", "3", ",", "p", "=", "0">>}
       \/ Split(input, "$")[6] = <<>>

\* C12 as stated: Matches never aborts; on a hash text with t=0, p=0 or an
\* empty key field it returns an error and false without calling the key
\* derivation.
C12_KeyDerivationGuarded ==
    res.op = "Matches" =>
        /\ res.err # "PANIC"
        /\ ZeroCostOrEmptyKey => (res.err # "nil" /\ ~res.ok /\ ~res.kdf)

(***************************************************************************)
(* Properties of NewHasherFromString (SpecSettings)                        *)
(***************************************************************************)
\* the comma-delimited tokens of the settings text
SettingsTokens == Split(input, ",")

\* the keys no token of the text sets
MissingKeys ==
    {i \in 1..6 : \A n \in 1..Len(SettingsTokens) :
                      ~HasPrefix(SettingsTokens[n], <<SettingKeys[i], "=">>)}

\* C3 as stated: NewHasherFromString returns an error and no Hasher for
\* every settings text that lacks one of the six keys.
C3_MissingKeyFails ==
    (res.op = "NewHasherFromString" /\ MissingKeys # {})
        => (res.err # "nil" /\ res.h = NilHasher)

\* the text of a token before its first '='
KeyOfToken(v) == Take(v, PrefixLen(v, {v[i] : i \in 1..Len(v)} \ {"="}))

\* the positions of the key=value tokens whose key is not one of the six
UnknownTokens ==
    {n \in 1..Len(SettingsTokens) :
        /\ \E i \in 1..Len(SettingsTokens[n]) : SettingsTokens[n][i] = "="
        /\ \A i \in 1..6 : KeyOfToken(SettingsTokens[n]) # <<SettingKeys[i]>>}

\* C10 as stated: a settings text with a key=value token of unknown key
\* fails with ErrUnknownSetting carrying that key, wherever the token is
\* and whatever the other tokens are.
C10_UnknownKeyAlwaysReported ==
    (res.op = "NewHasherFromString" /\ UnknownTokens # {})
        => /\ res.err = "ErrUnknownSetting"
           /\ \E n \in UnknownTokens : res.setting = KeyOfToken(SettingsTokens[n])

\* the tokens that fail on their own
FailingTokens ==
    {n \in 1..Len(SettingsTokens) : settingCase(ZeroHasher, SettingsTokens[n]).err # "nil"}

\* C10 amended: a settings text with a key=value token of unknown key
\* never yields a Hasher; the tokens are taken from left to right and the
\* first one that fails decides the error, so the call fails with
\* ErrUnknownSetting when every token before the first unknown key is
\* accepted, and the error then carries the first character of that token.
C10_FirstFailingTokenDecides ==
    (res.op = "NewHasherFromString" /\ UnknownTokens # {})
        => /\ res.err # "nil"
           /\ res.h = NilHasher
           /\ \A n \in UnknownTokens :
                  (\A k \in FailingTokens : n <= k)
                      => (res.err = "ErrUnknownSetting"
                          /\ res.setting = <<SettingsTokens[n][1]>>)
           /\ \A n \in FailingTokens :
                  (\A k \in FailingTokens : n <= k)
                      => res.err = settingCase(ZeroHasher, SettingsTokens[n]).err

C10_Witness ==
    /\ res.op = "NewHasherFromString" /\ res.err = "ErrUnknownSetting"
    /\ res.setting = <<"j">> /\ Len(SettingsTokens) = 7
    /\ KeyOfToken(SettingsTokens[4]) = <<"j", "k">>

\* C11 as stated: NewHasherFromString never aborts: it returns a Hasher and
\* no error, or an error and no Hasher, also for a token of fewer than two
\* characters and for a memory expression that divides by zero.
C11_SettingsNeverAbort ==
    res.op = "NewHasherFromString" =>
        /\ res.err # "PANIC"
        /\ res.err = "nil" <=> res.h # NilHasher

(***************************************************************************)
(* Properties of parseMemory (SpecExpr)                                    *)
(***************************************************************************)
\* the nesting depth of parentheses before position i of s
DepthAt(s, i) ==
    Cardinality({j \in 1..(i - 1) : s[j] = "("}) - Cardinality({j \in 1..(i - 1) : s[j] = ")"})

\* the positions of the operators of cs outside every parenthesis
TopOps(s, cs) == {i \in 1..Len(s) : s[i] \in cs /\ DepthAt(s, i) = 0}

Last(ps) == CHOOSE i \in ps : \A j \in ps : j <= i

\* a reference result: the value in unsigned 32-bit arithmetic, whether a
\* literal exceeded 32 bits, whether a sum or a product did, whether a
\* divisor was zero
RefApply(o, x, y) ==
    LET v == IF o = "+" THEN U32Add(x.val, y.val)
             ELSE IF o = "-" THEN U32Sub(x.val, y.val)
             ELSE IF o = "*" THEN U32Mul(x.val, y.val)
             ELSE IF y.val = U32Zero THEN U32Zero
             ELSE U32Div(x.val, y.val)
    IN  [val     |-> v,
         litover |-> x.litover \/ y.litover,
         wrapped |-> \/ x.wrapped \/ y.wrapped
                     \/ o = "+" /\ U32Lt(v, x.val)
                     \/ o = "*" /\ x.val # U32Zero /\ U32Div(v, x.val) # y.val,
         divzero |-> x.divzero \/ y.divzero \/ (o = "/" /\ y.val = U32Zero)]

\* the reference reading of an expression without spaces: it splits at its
\* last + or - outside parentheses, else at its last * or /, else it is a
\* parenthesized expression or a literal
RECURSIVE RefEval(_)
RefEval(s) ==
    LET split(i) == Let(RefEval(Take(s, i - 1)), LAMBDA x :
                    Let(RefEval(Drop(s, i)), LAMBDA y : RefApply(s[i], x, y)))
    IN  IF TopOps(s, {"+", "-"}) # {} THEN split(Last(TopOps(s, {"+", "-"})))
        ELSE IF TopOps(s, {"*", "/"}) # {} THEN split(Last(TopOps(s, {"*", "/"})))
        ELSE IF s[1] = "(" THEN RefEval(SubSeq(s, 2, Len(s) - 1))
        ELSE [val     |-> DigitsToU32(s),
              litover |-> ~DecimalLe(s, MaxUint32Digits),
              wrapped |-> FALSE,
              divzero |-> FALSE]

\* the reference result of the input
Ref == RefEval(SelectSeq(input, LAMBDA c : c # " "))

\* a well-formed expression whose literals fit 32 bits and whose divisors
\* are not zero has been evaluated
Evaluated ==
    res.op = "parseMemory" /\ input \in WellFormedExprs /\ ~Ref.litover /\ ~Ref.divzero

\* C8 as stated: a well-formed expression evaluates to its value under the
\* usual precedence in unsigned 32-bit arithmetic; "((64*1024)+(20-10))/2"
\* gives 32778 and "5-10" gives 4294967291.
C8_ValueWithExample32778 ==
    /\ Evaluated => (res.err = "nil" /\ res.val = Ref.val)
    /\ (res.op = "parseMemory" /\ input = Expr_Nested)
           => (res.err = "nil" /\ res.val = U32(32778))
    /\ (res.op = "parseMemory" /\ input = Expr_Wrap)
           => (res.err = "nil" /\ res.val = <<65535, 65531>>)

\* C8 amended: a well-formed expression whose literals fit 32 bits and
\* whose divisors are not zero evaluates to its value under the usual
\* precedence and left-to-right grouping, every operation taken modulo
\* 2^32 and division truncating; "((64*1024)+(20-10))/2" gives 32773 and
\* "5-10" gives 4294967291.
C8_ValueModulo2to32 ==
    /\ Evaluated => (res.err = "nil" /\ res.val = Ref.val)
    /\ (res.op = "parseMemory" /\ input = Expr_Nested)
           => (res.err = "nil" /\ res.val = U32(32773))
    /\ (res.op = "parseMemory" /\ input = Expr_Wrap)
           => (res.err = "nil" /\ res.val = <<65535, 65531>>)

C8_Witness ==
    /\ Evaluated /\ input = <<"2", "+", "5", "*", "1", "0">>
    /\ res.err = "nil" /\ res.val = U32(52)

\* C9 as stated: a well-formed expression with a literal, a sum or a
\* product beyond 32 bits is rejected with a numeric-conversion error; the
\* formula takes the expressions without subtraction, whose operands are
\* never wrapped differences.
C9_OverflowIsNumError ==
    (/\ res.op = "parseMemory" /\ input \in WellFormedExprs
     /\ \A i \in 1..Len(input) : input[i] # "-"
     /\ ~Ref.divzero /\ (Ref.litover \/ Ref.wrapped))
        => (res.err = "NumError")

====
